---- MODULE Spec2Model ----
(***************************************************************************)
(* Model of the job-map aggregator (src/ai.py): company resolution, the    *)
(* per-source freshness gate and refresh hook, the adapters' location      *)
(* fan-out, the learned-ATS map, and the snapshot / ledger writer of       *)
(* main().                                                                 *)
(*                                                                         *)
(* Text is modelled structurally: a company name is a sequence of words,   *)
(* a location string is a sequence of characters, a file is a record       *)
(* [exists, rows].  Python dicts keep insertion order, so a dict is a      *)
(* sequence of [k, v] pairs.                                               *)
(***************************************************************************)
EXTENDS Integers, Sequences, FiniteSets, TLC

VARIABLES
    day,        \* date.today() as a day number
    clock,      \* datetime.now(): one tick per aggregator run
    blobs,      \* <ats>/companies/<slug>.json : source -> [exists, jobs, fresh]
    learned,    \* ai_companies.json : [exists, map]
    canonical,  \* --output snapshot (map/public/ai.csv) : [exists, rows]
    dated,      \* ai-<date>.csv : day -> [exists, rows, mtime]
    new_ai,     \* new_ai.csv : [exists, rows]
    rm_ai,      \* rm_ai.csv : [exists, rows]
    argv,       \* the command line the aggregator is run with
    last,       \* the last run: [op, wrote, prev, hooks, repeat]
    call        \* the pure function under study: [fn, arg, ret]

vars == <<day, clock, blobs, learned, canonical, dated, new_ai, rm_ai, argv, last, call>>

-----------------------------------------------------------------------------
(* Bounds *)

MaxDay == 3
MaxRuns == 3
MaxLen == 3
MaxTime == 4

Days == 1..MaxDay

-----------------------------------------------------------------------------
(* Generic sequence and ordered-dict helpers (Python list / dict semantics) *)

None == "None"

RECURSIVE Concat(_)
Concat(ss) == IF ss = <<>> THEN <<>> ELSE Head(ss) \o Concat(Tail(ss))

Range(s) == {s[i] : i \in 1..Len(s)}

Urls(rows) == {rows[i].url : i \in 1..Len(rows)} \ {""}

DictHas(d, k) == \E i \in 1..Len(d) : d[i].k = k

DictGet(d, k) == LET i == CHOOSE j \in 1..Len(d) : d[j].k = k IN d[i].v

\* d[k] = v : an existing key keeps its position, a new key goes last
DictSet(d, k, v) ==
    IF DictHas(d, k)
    THEN [i \in 1..Len(d) |-> IF d[i].k = k THEN [k |-> k, v |-> v] ELSE d[i]]
    ELSE Append(d, [k |-> k, v |-> v])

DictKeys(d) == [i \in 1..Len(d) |-> d[i].k]

DictValues(d) == [i \in 1..Len(d) |-> d[i].v]

\* the lists of at most n elements of S
RECURSIVE ListsUpTo(_, _)
ListsUpTo(S, n) ==
    IF n = 0 THEN {<< >>}
    ELSE LET shorter == ListsUpTo(S, n - 1)
         IN  shorter \cup {Append(l, x) : l \in {m \in shorter : Len(m) = n - 1}, x \in S}

-----------------------------------------------------------------------------
(* Company names: normalize_company_name *)

SUFFIXES == <<"Inc", "Inc.", "LLC", "Ltd", "Ltd.", "Corp", "Corp.", "Co", "Co.">>

\* str.lower() on the words the model uses
LowerWord(w) ==
    CASE w = "Acme" -> "acme"
      [] w = "Bolt" -> "bolt"
      [] w = "Core" -> "core"
      [] w = "Inc"  -> "inc"
      [] w = "Co"   -> "co"
      [] w = "Tavily" -> "tavily"
      [] w = "Google" -> "google"
      [] w = "Cloudflare" -> "cloudflare"
      [] w = "Hybrid" -> "hybrid"
      [] w = "Distributed" -> "distributed"
      [] w = "In Office" -> "in office"
      [] OTHER      -> w

\* name.endswith(" " + suffix): the last word is the suffix and a word precedes it
RECURSIVE StripSuffixes(_, _)
StripSuffixes(name, i) ==
    IF i > Len(SUFFIXES) THEN name
    ELSE IF Len(name) >= 2 /\ name[Len(name)] = SUFFIXES[i]
         THEN StripSuffixes(SubSeq(name, 1, Len(name) - 1), i + 1)
         ELSE StripSuffixes(name, i + 1)

normalize_company_name(name) ==
    LET stripped == StripSuffixes(name, 1)
    IN  [i \in 1..Len(stripped) |-> LowerWord(stripped[i])]

-----------------------------------------------------------------------------
(* Location strings: split_locations *)

Whitespace == {" "}

RECURSIVE LStrip(_)
LStrip(s) == IF s # <<>> /\ Head(s) \in Whitespace THEN LStrip(Tail(s)) ELSE s

RECURSIVE RStrip(_)
RStrip(s) ==
    IF s # <<>> /\ s[Len(s)] \in Whitespace
    THEN RStrip(SubSeq(s, 1, Len(s) - 1))
    ELSE s

\* str.strip()
Strip(s) == RStrip(LStrip(s))

\* str.split(sep): the pieces between separators, cur being the piece in progress
RECURSIVE SplitOn(_, _, _)
SplitOn(s, sep, cur) ==
    IF s = <<>> THEN <<cur>>
    ELSE IF Head(s) = sep
         THEN <<cur>> \o SplitOn(Tail(s), sep, <<>>)
         ELSE SplitOn(Tail(s), sep, Append(cur, Head(s)))

StripAll(pieces) == [i \in 1..Len(pieces) |-> Strip(pieces[i])]

NonEmptyStripped(pieces) == SelectSeq(StripAll(pieces), LAMBDA p : p # <<>>)

split_locations(location_str) ==
    IF location_str = <<>> THEN << <<>> >>
    ELSE LET sep == IF "|" \in Range(location_str) THEN "|" ELSE ";"
             locations == NonEmptyStripped(SplitOn(location_str, sep, <<>>))
         IN  IF locations # <<>> THEN locations ELSE << <<>> >>

-----------------------------------------------------------------------------
(* The registries, the built-in company list and the blobs on disk *)

\* ATS_CONFIGS.keys(), in dict order
ATS_CONFIGS == <<"ashby", "greenhouse", "lever", "workable", "rippling">>

\* <ats>/..._companies.csv : rows (name, url); the url is kept as its path segments
REGISTRY == [
    ashby      |-> << [name |-> <<"Acme", "Inc">>, url |-> <<"acme">>],
                      [name |-> <<"Core">>,        url |-> <<"core">>] >>,
    greenhouse |-> << [name |-> <<"Bolt">>,        url |-> <<"bolt">>] >>,
    lever      |-> << >>,
    workable   |-> << >>,
    rippling   |-> << >> ]

\* a slice of the built-in list: every entry maps to None ("search all ATS"); the last
\* one is a company with a bespoke scraper
AI_COMPANIES_DEFAULT == <<
    [k |-> <<"acme">>, v |-> None],
    [k |-> <<"bolt">>, v |-> None],
    [k |-> <<"core">>, v |-> None],
    [k |-> <<"google">>, v |-> None] >>

SrcAcme == <<"ashby", <<"acme">>>>
SrcBolt == <<"greenhouse", <<"bolt">>>>
SrcCore == <<"ashby", <<"core">>>>

Sources == {SrcAcme, SrcBolt, SrcCore}

Posting(url, location) == [url |-> url, location |-> location]

\* what a scrape of each source may leave in its blob
BlobOptions(src) ==
    IF src = SrcAcme
    THEN { << >>,
           << Posting("uA", <<"x", "|", "y">>) >> }
    ELSE IF src = SrcBolt
    THEN { << >>,
           << Posting("uB", <<"x">>), Posting("", <<"x">>) >> }
    ELSE { << Posting("uC", <<"x">>) >> }

Blob(jobs, fresh) == [exists |-> TRUE, jobs |-> jobs, fresh |-> fresh]

NoFile == [exists |-> FALSE, rows |-> << >>]

File(rows) == [exists |-> TRUE, rows |-> rows]

-----------------------------------------------------------------------------
(* Company resolver *)

\* the path segments that make the slug: the first one for rippling, all otherwise
extract_slug_from_url(url, ats_type) ==
    IF ats_type = "rippling"
    THEN IF url # <<>> THEN <<Head(url)>> ELSE <<"unknown">>
    ELSE url

LowerSlug(slug) == [i \in 1..Len(slug) |-> LowerWord(slug[i])]

\* one registry file read row by row. A short CSV line has no url field: DictReader
\* gives None for it, .strip() raises, and the except around the file keeps the matches
\* made so far and gives up the rest of the file
RECURSIVE ScanRegistry(_, _, _, _)
ScanRegistry(rows, ats, normalized_search, matches) ==
    IF rows = << >> THEN matches
    ELSE LET row == Head(rows)
         IN  IF "url" \notin DOMAIN row THEN matches
             ELSE IF row.name = << >> \/ row.url = << >>
                  THEN ScanRegistry(Tail(rows), ats, normalized_search, matches)
             ELSE IF normalize_company_name(row.name) = normalized_search
                  THEN ScanRegistry(Tail(rows), ats, normalized_search,
                           Append(matches, [ats |-> ats,
                                            slug |-> extract_slug_from_url(row.url, ats),
                                            name |-> row.name]))
             ELSE ScanRegistry(Tail(rows), ats, normalized_search, matches)

\* keep the first match of every (ats, slug.lower())
RECURSIVE UniqueMatches(_, _)
UniqueMatches(matches, seen) ==
    IF matches = <<>> THEN <<>>
    ELSE LET m == Head(matches)
             key == <<m.ats, LowerSlug(m.slug)>>
         IN  IF key \in seen
             THEN UniqueMatches(Tail(matches), seen)
             ELSE <<m>> \o UniqueMatches(Tail(matches), seen \cup {key})

\* find_companies_by_name over the registry files given
FindCompanies(registry, company_name, ats_type) ==
    LET normalized_search == normalize_company_name(company_name)
        ats_to_search == IF ats_type # None THEN <<ats_type>> ELSE ATS_CONFIGS
        known == SelectSeq(ats_to_search, LAMBDA a : a \in Range(ATS_CONFIGS))
        matches == Concat([i \in 1..Len(known) |->
                              ScanRegistry(registry[known[i]], known[i],
                                           normalized_search, << >>)])
    IN  UniqueMatches(matches, {})

find_companies_by_name(company_name, ats_type) ==
    FindCompanies(REGISTRY, company_name, ats_type)

-----------------------------------------------------------------------------
(* Adapters: one row per location of every posting *)

\* location_str.lower().strip() of Tavily's catch-all location, as one part
ALL_LOCATIONS_ON_SITE == <<"all locations - on site">>

NEW_YORK == <<"New York">>

\* only Tavily's "All Locations - On Site" is rewritten
normalize_location_by_company(location_str, company_name) ==
    IF location_str = <<>> \/ company_name = <<>> THEN location_str
    ELSE IF [i \in 1..Len(company_name) |-> LowerWord(company_name[i])] = <<"tavily">>
            /\ Strip(location_str) = ALL_LOCATIONS_ON_SITE
    THEN NEW_YORK
    ELSE location_str

PostingRows(posting, ats, company_name) ==
    LET locations == split_locations(
                        normalize_location_by_company(posting.location, company_name))
    IN  [i \in 1..Len(locations) |->
            [url |-> posting.url, location |-> locations[i],
             company |-> company_name, ats_type |-> ats]]

\* extract_<ats>_jobs: the rows of a blob, in posting order
extract_jobs(ats, jobs, company_name) ==
    Concat([i \in 1..Len(jobs) |-> PostingRows(jobs[i], ats, company_name)])

-----------------------------------------------------------------------------
(* Bespoke adapters (non-ATS sources): how each one reads a posting's location *)

JobData(url, location, locations) ==
    [url |-> url, location |-> location, locations |-> locations]

\* sep.join(parts)
RECURSIVE Join(_, _)
Join(parts, sep) ==
    IF parts = <<>> THEN <<>>
    ELSE IF Len(parts) = 1 THEN Head(parts)
    ELSE Head(parts) \o sep \o Join(Tail(parts), sep)

\* [str(loc).strip() for loc in raw_locations if loc]
StrippedTruthy(raw_locations) ==
    StripAll(SelectSeq(raw_locations, LAMBDA loc : loc # <<>>))

\* one row per entry of locations
LocationRows(url, locations, ats, company_name) ==
    [i \in 1..Len(locations) |->
        [url |-> url, location |-> locations[i],
         company |-> company_name, ats_type |-> ats]]

\* google, tiktok, amazon, cursor: the location field, stripped; no url, no row
extract_google_jobs(job_data, ats, company_name) ==
    IF job_data.url = "" THEN <<>>
    ELSE LocationRows(job_data.url,
            split_locations(normalize_location_by_company(
                Strip(job_data.location), company_name)),
            ats, company_name)

\* microsoft, nvidia: the locations array joined with " | "
extract_microsoft_jobs(job_data, ats, company_name) ==
    IF job_data.url = "" THEN <<>>
    ELSE LET location == Join(StrippedTruthy(job_data.locations), <<" ", "|", " ">>)
         IN  LocationRows(job_data.url,
                split_locations(normalize_location_by_company(location, company_name)),
                ats, company_name)

\* apple, uber: the locations array joined with "; ", else the location field; "N/A"
\* when that leaves nothing
extract_apple_jobs(job_data, ats, company_name) ==
    IF job_data.url = "" THEN <<>>
    ELSE LET joined == IF job_data.locations # <<>>
                       THEN Join(StrippedTruthy(job_data.locations), <<";", " ">>)
                       ELSE Strip(job_data.location)
             location_str == IF joined = <<>> THEN <<"N", "/", "A">> ELSE joined
         IN  LocationRows(job_data.url,
                split_locations(normalize_location_by_company(location_str, company_name)),
                ats, company_name)

\* meta: every entry of the locations array is split on its own
extract_meta_jobs(job_data, ats, company_name) ==
    LET location_values ==
            IF job_data.locations # <<>> THEN StrippedTruthy(job_data.locations)
            ELSE IF job_data.location # <<>> THEN <<Strip(job_data.location)>>
            ELSE << <<>> >>
    IN  Concat([i \in 1..Len(location_values) |->
            LocationRows(job_data.url,
                split_locations(normalize_location_by_company(
                    location_values[i], company_name)),
                ats, company_name)])

ATS_ADAPTERS == {"ashby", "greenhouse", "lever", "workable", "rippling"}

\* the rows an adapter emits for one posting
extract_posting(ats, job_data, company_name) ==
    CASE ats \in ATS_ADAPTERS -> PostingRows(job_data, ats, company_name)
      [] ats \in {"google", "tiktok", "amazon", "cursor"} ->
            extract_google_jobs(job_data, ats, company_name)
      [] ats \in {"microsoft", "nvidia"} ->
            extract_microsoft_jobs(job_data, ats, company_name)
      [] ats \in {"apple", "uber"} -> extract_apple_jobs(job_data, ats, company_name)
      [] ats = "meta" -> extract_meta_jobs(job_data, ats, company_name)

-----------------------------------------------------------------------------
(* Timestamps: a timestamp string is the sequence of its parts, a digit group being *)
(* written by its width                                                             *)

DATE == <<"dddd", "-", "dd", "-", "dd">>

TIME == <<"dd", ":", "dd", ":", "dd">>

FRACTION == <<".", "dddddd">>

SLASH_DATE == <<"dd", "/", "dd", "/", "dddd">>

\* JSON values of a timestamp field
Null == [type |-> "null", text |-> << >>]
Str(text) == [type |-> "str", text |-> text]
Num == [type |-> "num", text |-> << >>]

\* Python truthiness; the numbers of the model are non-zero
Truthy(value) == value.type = "num" \/ (value.type = "str" /\ value.text # << >>)

\* value_a or value_b
Or(value_a, value_b) == IF Truthy(value_a) THEN value_a ELSE value_b

\* a datetime: whether it has microseconds, and its tzinfo
Datetime(micro, tz) == [micro |-> micro, tz |-> tz]

Parsed(dt) == [ok |-> TRUE, dt |-> dt]

Unparsed == [ok |-> FALSE, dt |-> Datetime(FALSE, "naive")]

DropLast(text, n) == SubSeq(text, 1, Len(text) - n)

EndsWith(text, suffix) ==
    Len(text) >= Len(suffix)
       /\ SubSeq(text, Len(text) - Len(suffix) + 1, Len(text)) = suffix

\* datetime.fromisoformat (Python 3.11): a date, or a date, one separator, a time, an
\* optional fraction and an optional offset or "Z"
fromisoformat(text) ==
    LET tz == IF text # << >> /\ text[Len(text)] \in {"+00:00", "Z"} THEN "+00:00"
              ELSE IF text # << >> /\ text[Len(text)] = "+02:00" THEN "+02:00"
              ELSE "naive"
        no_tz == IF tz = "naive" THEN text ELSE DropLast(text, 1)
        micro == EndsWith(no_tz, FRACTION)
        no_frac == IF micro THEN DropLast(no_tz, 2) ELSE no_tz
    IN  IF text = DATE THEN Parsed(Datetime(FALSE, "naive"))
        ELSE IF no_frac \in {DATE \o <<"T">> \o TIME, DATE \o <<" ">> \o TIME}
        THEN Parsed(Datetime(micro, tz))
        ELSE Unparsed

\* datetime.strptime(text, fmt) for the formats the adapters try
strptime(text, fmt) ==
    IF \/ fmt = "%Y-%m-%d" /\ text = DATE
       \/ fmt \in {"%m/%d/%Y", "%d/%m/%Y"} /\ text = SLASH_DATE
       \/ fmt = "%Y-%m-%d %H:%M:%S" /\ text = DATE \o <<" ">> \o TIME
    THEN Parsed(Datetime(FALSE, "naive"))
    ELSE Unparsed

\* dt.isoformat()
isoformat(dt) ==
    DATE \o <<"T">> \o TIME \o (IF dt.micro THEN FRACTION ELSE << >>)
         \o (IF dt.tz = "naive" THEN << >> ELSE <<dt.tz>>)

\* text.replace(old, new) for a one-part old
Replace(text, old, new) == [i \in 1..Len(text) |-> IF text[i] = old THEN new ELSE text[i]]

normalize_datetime_to_utc_iso(dt) ==
    LET utc == [dt EXCEPT !.tz = "+00:00"]
    IN  Str(Replace(isoformat([utc EXCEPT !.micro = FALSE]), "+00:00", "Z"))

\* try: return normalize_datetime_to_utc_iso(<parse>) except Exception: return None
NormalizedOrNone(parsed) ==
    IF parsed.ok THEN normalize_datetime_to_utc_iso(parsed.dt) ELSE Null

\* fromisoformat of a JSON value: a number raises TypeError
IsoOrNone(value) ==
    IF value.type = "str" THEN NormalizedOrNone(fromisoformat(value.text)) ELSE Null

\* workable's _date_to_iso
_date_to_iso(value) ==
    IF value.type = "str" THEN NormalizedOrNone(strptime(value.text, "%Y-%m-%d")) ELSE Null

posted_at_from_source(ats_type, raw_job) ==
    CASE ats_type = "ashby" ->
            IF Truthy(raw_job.publishedAt) THEN IsoOrNone(raw_job.publishedAt) ELSE Null
      [] ats_type = "greenhouse" ->
            LET ts == Or(raw_job.updated_at, raw_job.first_published)
            IN  IF Truthy(ts) THEN IsoOrNone(ts) ELSE Null
      [] ats_type = "lever" ->
            IF raw_job.createdAt.type = "num"
            THEN normalize_datetime_to_utc_iso(Datetime(TRUE, "+00:00"))
            ELSE IF raw_job.createdAt.type = "str" THEN IsoOrNone(raw_job.createdAt)
            ELSE Null
      [] ats_type = "rippling" ->
            IF Truthy(raw_job.created_on) THEN IsoOrNone(raw_job.created_on) ELSE Null
      [] ats_type = "workable" ->
            LET iso == IF Truthy(raw_job.published_on)
                       THEN _date_to_iso(raw_job.published_on) ELSE Null
            IN  IF Truthy(iso) THEN iso
                ELSE IF Truthy(raw_job.created_at) THEN _date_to_iso(raw_job.created_at)
                ELSE Null
      \* float(created_date): no string of the model is a number
      [] ats_type = "amazon" ->
            IF raw_job.createdDate.type = "num"
            THEN normalize_datetime_to_utc_iso(Datetime(TRUE, "+00:00"))
            ELSE Null
      [] OTHER -> Null

\* apple, uber: ISO when the text has a "T" or ends in "Z", the common formats otherwise
ParsePostingDate(value) ==
    IF ~Truthy(value) \/ value.type # "str" THEN Null
    ELSE IF "T" \in Range(value.text) \/ EndsWith(value.text, <<"Z">>)
    THEN NormalizedOrNone(fromisoformat(Replace(value.text, "Z", "+00:00")))
    ELSE IF \E fmt \in {"%Y-%m-%d", "%m/%d/%Y", "%d/%m/%Y", "%Y-%m-%d %H:%M:%S"} :
               strptime(value.text, fmt).ok
    THEN normalize_datetime_to_utc_iso(Datetime(FALSE, "naive"))
    ELSE Null

\* the posted_at an adapter puts in the rows of a posting
posted_at(ats, job_data) ==
    CASE ats \in ATS_ADAPTERS \cup {"amazon"} -> posted_at_from_source(ats, job_data)
      [] ats \in {"microsoft", "nvidia"} -> job_data.posted_at
      [] ats = "meta" -> job_data.updated_time
      [] ats = "apple" -> ParsePostingDate(job_data.postingDate)
      [] ats = "uber" -> ParsePostingDate(job_data.creation_date)
      [] OTHER -> Null

-----------------------------------------------------------------------------
(* Freshness gate and refresh hook, as the aggregator uses them *)

\* check_json_freshness(json_file, max_age_hours) at time now: any exception while the
\* file is read means "not fresh"; a last_scraped that cannot be used means the mtime
check_json_freshness(json_file, max_age_hours, now) ==
    IF ~json_file.exists THEN FALSE
    ELSE IF ~json_file.parses THEN FALSE
    ELSE IF json_file.top # "object" THEN FALSE
    ELSE IF json_file.last_scraped.kind = "naive"
    THEN now - json_file.last_scraped.at < max_age_hours
    ELSE now - json_file.mtime < max_age_hours


\* check_json_freshness(json_file, max_age_hours=1.0) on a blob of the run
IsFresh(blob) == blob.exists /\ blob.fresh

\* fetch_fresh_data: the scraper rewrites the blob, or fails and leaves it as it was
fetch_fresh_data(src, blob) ==
    {blob} \cup {Blob(jobs, TRUE) : jobs \in BlobOptions(src)}

\* a gather in progress: the blobs on disk, the rows so far, the hooks invoked, and
\* the order in which hooks returned and blobs were parsed
GatherState(bl, jobs, hooks, log) ==
    [blobs |-> bl, jobs |-> jobs, hooks |-> hooks, log |-> log]

\* fetch_fresh_data returned for src: ok when the blob was rewritten, not ok when the
\* scraper raised or skipped (fetch_fresh_data catches every Exception, returns False)
HookReturned(src, ok) == [ev |-> "hook", src |-> src, ok |-> ok]

\* extract_<ats>_jobs read the blob of src
BlobParsed(src) == [ev |-> "parse", src |-> src, ok |-> TRUE]

\* a gather that parses a blob only when it is fresh after the hook
ParseBlob_only_when_fresh(m, st) ==
    LET src == <<m.ats, m.slug>>
    IN  IF IsFresh(st.blobs[src])
        THEN [st EXCEPT !.jobs = @ \o extract_jobs(m.ats, st.blobs[src].jobs, m.name),
                        !.log = Append(@, BlobParsed(src))]
        ELSE st

\* the blob is parsed whatever the hook did, and its rows are added to all_jobs
ParseBlob(m, st) ==
    LET src == <<m.ats, m.slug>>
    IN  [st EXCEPT !.jobs = @ \o extract_jobs(m.ats, st.blobs[src].jobs, m.name),
                   !.log = Append(@, BlobParsed(src))]

\* the loop over all_matches; the result is the set of outcomes the hooks allow
RECURSIVE ExtractMatches(_, _)
ExtractMatches(matches, st) ==
    IF matches = <<>> THEN {st}
    ELSE LET m == Head(matches)
             src == <<m.ats, m.slug>>
         IN  IF src \notin Sources \/ ~st.blobs[src].exists
             THEN ExtractMatches(Tail(matches), st)
             ELSE LET refreshed ==
                         IF IsFresh(st.blobs[src]) THEN {st}
                         ELSE { GatherState([st.blobs EXCEPT ![src] = b], st.jobs,
                                            Append(st.hooks, src),
                                            Append(st.log, HookReturned(src, b.fresh)))
                                : b \in fetch_fresh_data(src, st.blobs[src]) }
                  IN  UNION { ExtractMatches(Tail(matches), ParseBlob(m, st2))
                              : st2 \in refreshed }

gather_jobs_for_companies(company_names, ats_type, st) ==
    LET all_matches == Concat([i \in 1..Len(company_names) |->
                                  find_companies_by_name(company_names[i], ats_type)])
    IN  ExtractMatches(all_matches, st)

-----------------------------------------------------------------------------
(* Learned ATS map: ai_companies.json over the built-in list *)

RECURSIVE OverlayNormalized(_, _)
OverlayNormalized(mapping, items) ==
    IF items = <<>> THEN mapping
    ELSE OverlayNormalized(
            DictSet(mapping, normalize_company_name(Head(items).k), Head(items).v),
            Tail(items))

_normalize_ai_company_map(raw_map) == OverlayNormalized(<<>>, raw_map)

load_ai_companies(file) ==
    LET mapping == _normalize_ai_company_map(AI_COMPANIES_DEFAULT)
    IN  IF file.exists THEN OverlayNormalized(mapping, file.map) ELSE mapping

\* companies_by_ats: the names grouped under the ATS the map gives them
RECURSIVE GroupByAts(_, _, _)
GroupByAts(names, ai_map, groups) ==
    IF names = <<>> THEN groups
    ELSE LET key == normalize_company_name(Head(names))
             ats_type == IF DictHas(ai_map, key) THEN DictGet(ai_map, key) ELSE None
             sofar == IF DictHas(groups, ats_type) THEN DictGet(groups, ats_type) ELSE <<>>
         IN  GroupByAts(Tail(names), ai_map,
                        DictSet(groups, ats_type, Append(sofar, Head(names))))

\* one gather per group, in group order, each starting from the disk the last one left
RECURSIVE GatherGroups(_, _)
GatherGroups(groups, st) ==
    IF groups = <<>> THEN {st}
    ELSE UNION { GatherGroups(Tail(groups), st2)
                 : st2 \in gather_jobs_for_companies(Head(groups).v, Head(groups).k, st) }

\* ats_by_company: for every company with rows, the set of ATS types seen
RECURSIVE AtsByCompany(_, _)
AtsByCompany(jobs, acc) ==
    IF jobs = <<>> THEN acc
    ELSE LET job == Head(jobs)
             key == normalize_company_name(job.company)
         IN  IF job.company = <<>> \/ job.ats_type \notin Range(ATS_CONFIGS)
             THEN AtsByCompany(Tail(jobs), acc)
             ELSE AtsByCompany(Tail(jobs),
                      DictSet(acc, key,
                          (IF DictHas(acc, key) THEN DictGet(acc, key) ELSE {})
                              \cup {job.ats_type}))

\* a learner that stores one of the observed ATS types even when there are several
RECURSIVE LearnAts_any_observed(_, _)
LearnAts_any_observed(ai_map, observed) ==
    IF observed = <<>> THEN ai_map
    ELSE LET ats_set == Head(observed).v
             ats_value == CHOOSE a \in ats_set : TRUE
         IN  LearnAts_any_observed(DictSet(ai_map, Head(observed).k, ats_value),
                                   Tail(observed))

RECURSIVE LearnAts(_, _)
LearnAts(ai_map, observed) ==
    IF observed = <<>> THEN ai_map
    ELSE LET ats_set == Head(observed).v
             ats_value == IF Cardinality(ats_set) = 1
                          THEN CHOOSE a \in ats_set : TRUE
                          ELSE None
         IN  LearnAts(DictSet(ai_map, Head(observed).k, ats_value), Tail(observed))

-----------------------------------------------------------------------------
(* Snapshot dates *)

\* existing_dates from the canonical snapshot: a later row overwrites an earlier one
RECURSIVE DatesOf(_, _)
DatesOf(rows, acc) ==
    IF rows = <<>> THEN acc
    ELSE DatesOf(Tail(rows),
                 IF Head(rows).url # "" THEN DictSet(acc, Head(rows).url, Head(rows).date)
                 ELSE acc)

\* ... completed from a dated snapshot: only for URLs not known yet
RECURSIVE DatesMissingFrom(_, _)
DatesMissingFrom(rows, acc) ==
    IF rows = <<>> THEN acc
    ELSE DatesMissingFrom(Tail(rows),
                 IF Head(rows).url # "" /\ ~DictHas(acc, Head(rows).url)
                 THEN DictSet(acc, Head(rows).url, Head(rows).date)
                 ELSE acc)

\* the day of the ai-<date>.csv with the largest mtime, 0 when there is none
find_most_recent_ai_csv(files, today, exclude_today) ==
    LET csv_files == {d \in Days : files[d].exists /\ ~(exclude_today /\ d = today)}
    IN  IF csv_files = {} THEN 0
        ELSE CHOOSE d \in csv_files : \A e \in csv_files : files[e].mtime <= files[d].mtime

existing_dates(output, files, today) ==
    LET from_output == IF output.exists THEN DatesOf(output.rows, <<>>) ELSE <<>>
        previous_csv == find_most_recent_ai_csv(files, today, FALSE)
    IN  IF previous_csv # 0
        THEN DatesMissingFrom(files[previous_csv].rows, from_output)
        ELSE from_output

StampDates(jobs, dates, current_datetime) ==
    [i \in 1..Len(jobs) |->
        [url |-> jobs[i].url, location |-> jobs[i].location,
         company |-> jobs[i].company, ats_type |-> jobs[i].ats_type,
         date |-> IF jobs[i].url # "" /\ DictHas(dates, jobs[i].url)
                  THEN DictGet(dates, jobs[i].url)
                  ELSE current_datetime]]

-----------------------------------------------------------------------------
(* Diff against the previous dated snapshot, and the two ledgers *)

\* a diff that forgets the previous snapshot: every row of current_csv counts as new
find_new_jobs_unfiltered(current_rows, previous_rows) ==
    SelectSeq(current_rows, LAMBDA row : row.url # "")

\* rows of current_csv whose url is not in previous_csv
find_new_jobs(current_rows, previous_rows) ==
    SelectSeq(current_rows, LAMBDA row : row.url # "" /\ row.url \notin Urls(previous_rows))

\* rows of previous_csv whose url is not in current_csv
find_removed_jobs(current_rows, previous_rows) ==
    SelectSeq(previous_rows, LAMBDA row : row.url # "" /\ row.url \notin Urls(current_rows))

\* dict[url] = row for every row, in order
RECURSIVE PutRows(_, _)
PutRows(acc, rows) ==
    IF rows = <<>> THEN acc
    ELSE PutRows(IF Head(rows).url # "" THEN DictSet(acc, Head(rows).url, Head(rows)) ELSE acc,
                 Tail(rows))

\* a ledger read that forgets to drop the URLs that reappeared
StillRemoved_keep_all(ledger, current_urls) ==
    IF ledger.exists
    THEN SelectSeq(ledger.rows, LAMBDA row : row.url # "")
    ELSE <<>>

\* existing_removed_jobs: ledger rows that are still absent from the current snapshot
StillRemoved(ledger, current_urls) ==
    IF ledger.exists
    THEN SelectSeq(ledger.rows, LAMBDA row : row.url # "" /\ row.url \notin current_urls)
    ELSE <<>>

\* rm_ai.csv after the run: written when there are rows, deleted otherwise
UpdateRemovedLedger(ledger, current_urls, removed_jobs) ==
    LET existing_removed_jobs ==
            PutRows(PutRows(<<>>, StillRemoved(ledger, current_urls)), removed_jobs)
    IN  IF existing_removed_jobs # <<>>
        THEN File(DictValues(existing_removed_jobs))
        ELSE NoFile

\* existing_new_jobs: ledger rows whose url is still in the current snapshot
StillActive(ledger, current_urls) ==
    IF ledger.exists
    THEN SelectSeq(ledger.rows, LAMBDA row : row.url # "" /\ row.url \in current_urls)
    ELSE <<>>

WithDateAdded(rows, today_str) ==
    [i \in 1..Len(rows) |->
        [url |-> rows[i].url, location |-> rows[i].location,
         company |-> rows[i].company, ats_type |-> rows[i].ats_type,
         date |-> rows[i].date, date_added |-> today_str]]

\* a ledger update that starts from the rows of this run and adds the retained ones
UpdateNewLedger_new_rows_first(ledger, current_urls, new_jobs, today_str) ==
    LET existing_new_jobs ==
            PutRows(PutRows(<<>>, WithDateAdded(new_jobs, today_str)),
                    SelectSeq(StillActive(ledger, current_urls),
                              LAMBDA row : row.url \notin Urls(new_jobs)))
    IN  IF existing_new_jobs # <<>>
        THEN File(DictValues(existing_new_jobs))
        ELSE ledger

\* new_ai.csv after a run that found a previous snapshot: rewritten only when rows remain
UpdateNewLedger(ledger, current_urls, new_jobs, today_str) ==
    LET existing_new_jobs ==
            PutRows(PutRows(<<>>, StillActive(ledger, current_urls)),
                    WithDateAdded(new_jobs, today_str))
    IN  IF existing_new_jobs # <<>>
        THEN File(DictValues(existing_new_jobs))
        ELSE ledger

\* new_ai.csv after a run that found no previous snapshot
ValidateNewLedger(ledger, current_urls) ==
    LET existing_new_jobs == PutRows(<<>>, StillActive(ledger, current_urls))
    IN  IF ledger.exists /\ existing_new_jobs # <<>>
        THEN File(DictValues(existing_new_jobs))
        ELSE ledger

-----------------------------------------------------------------------------
(* main(): one aggregator run *)

NoDated == [exists |-> FALSE, rows |-> << >>, mtime |-> 0]

NoLearned == [exists |-> FALSE, map |-> << >>]

Idle == [fn |-> "none", arg |-> << >>, ret |-> << >>]

Args(ai_companies, companies, ats) ==
    [ai_companies |-> ai_companies, companies |-> companies, ats |-> ats]

\* the command lines the model runs
CommandLines == {
    Args(FALSE, << >>, None),
    Args(FALSE, << <<"Acme">>, <<"Acme", "Inc">> >>, None),
    Args(TRUE, << >>, "ashby") }

\* op: "init" or "run"; wrote: the run wrote a snapshot; prev: the day of the dated
\* snapshot it compared against (0: none); hooks: the refresh hooks it invoked, in order;
\* repeat: it directly followed a run that wrote a snapshot, and invoked no hook
Observed(op, wrote, prev, hooks, repeat) ==
    [op |-> op, wrote |-> wrote, prev |-> prev, hooks |-> hooks, repeat |-> repeat]

UsesBuiltinList(args) == args.ai_companies \/ args.companies = << >>

\* every way the gather of a run can end, given what the refresh hooks do
GatherOutcomes(args) ==
    LET ai_companies_map == load_ai_companies(learned)
        companies_to_search ==
            IF UsesBuiltinList(args) THEN DictKeys(ai_companies_map) ELSE args.companies
        st == GatherState(blobs, << >>, << >>, << >>)
    IN  IF UsesBuiltinList(args) /\ args.ats = None
        THEN GatherGroups(GroupByAts(companies_to_search, ai_companies_map, << >>), st)
        ELSE gather_jobs_for_companies(companies_to_search, args.ats, st)

\* ai_companies.json after the run
LearnedAfter(args, jobs) ==
    IF UsesBuiltinList(args) /\ jobs # << >>
    THEN [exists |-> TRUE,
          map |-> LearnAts(load_ai_companies(learned), AtsByCompany(jobs, << >>))]
    ELSE learned

\* a run without jobs that records every posting of the canonical snapshot as removed
MainNoJobs_records_removed(out) ==
    /\ out.jobs = << >>
    /\ rm_ai' = UpdateRemovedLedger(rm_ai, {},
                     SelectSeq(canonical.rows, LAMBDA row : row.url # ""))
    /\ UNCHANGED <<canonical, dated, new_ai>>
    /\ last' = Observed("run", FALSE, 0, out.hooks, FALSE)

\* the run ends at "No jobs found." and writes no snapshot and no ledger
MainNoJobs(out) ==
    /\ out.jobs = << >>
    /\ UNCHANGED <<canonical, dated, new_ai, rm_ai>>
    /\ last' = Observed("run", FALSE, 0, out.hooks, FALSE)

\* what a run with jobs leaves on disk: both snapshots, then the ledgers; prev is the
\* day of the dated snapshot it compared against (0: none)
RunWrites(out) ==
    LET rows == StampDates(out.jobs, existing_dates(canonical, dated, day), clock)
        written == [dated EXCEPT ![day] = [exists |-> TRUE, rows |-> rows, mtime |-> clock]]
        current_urls == Urls(rows)
        previous_csv == find_most_recent_ai_csv(written, day, TRUE)
    IN  [canonical |-> File(rows),
         dated |-> written,
         rm_ai |-> IF previous_csv # 0
                   THEN UpdateRemovedLedger(rm_ai, current_urls,
                            find_removed_jobs(rows, written[previous_csv].rows))
                   ELSE rm_ai,
         new_ai |-> IF previous_csv # 0
                    THEN UpdateNewLedger(new_ai, current_urls,
                             find_new_jobs(rows, written[previous_csv].rows), day)
                    ELSE ValidateNewLedger(new_ai, current_urls),
         prev |-> previous_csv]

\* the run writes both snapshots and then the ledgers
MainWrite(out) ==
    /\ out.jobs # << >>
    /\ LET w == RunWrites(out)
       IN  /\ canonical' = w.canonical
           /\ dated' = w.dated
           /\ rm_ai' = w.rm_ai
           /\ new_ai' = w.new_ai
           /\ last' = Observed("run", TRUE, w.prev, out.hooks,
                               last.op = "run" /\ last.wrote /\ out.hooks = << >>)

Main(args) ==
    /\ clock <= MaxRuns
    /\ \E out \in GatherOutcomes(args) :
          /\ blobs' = out.blobs
          /\ learned' = LearnedAfter(args, out.jobs)
          /\ MainNoJobs(out) \/ MainWrite(out)
    /\ clock' = clock + 1
    /\ UNCHANGED <<day, argv, call>>

Run == Main(argv)

-----------------------------------------------------------------------------
(* The world around the aggregator *)

\* a day passes without a scrape: every blob is older than the freshness window
NextDay ==
    /\ day < MaxDay
    /\ day' = day + 1
    /\ blobs' = [src \in Sources |-> [blobs[src] EXCEPT !.fresh = FALSE]]
    /\ UNCHANGED <<clock, learned, canonical, dated, new_ai, rm_ai, argv, last, call>>

\* an hour passes without a scrape, with the same effect on the blobs
Expire ==
    /\ \E src \in Sources : blobs[src].exists /\ blobs[src].fresh
    /\ blobs' = [src \in Sources |-> [blobs[src] EXCEPT !.fresh = FALSE]]
    /\ UNCHANGED <<day, clock, learned, canonical, dated, new_ai, rm_ai, argv, last, call>>

\* the dated snapshots are cleared from the project root while the ledgers stay: the
\* state main() handles as "No previous dated CSV found, but validating existing new_ai.csv"
ClearDatedSnapshots ==
    /\ \E d \in Days : dated[d].exists
    /\ new_ai.exists \/ rm_ai.exists
    /\ dated' = [d \in Days |-> NoDated]
    /\ UNCHANGED <<day, clock, blobs, learned, canonical, new_ai, rm_ai, argv, last, call>>

Init ==
    /\ day = 1
    /\ clock = 1
    /\ blobs = [src \in Sources |->
                  Blob(CHOOSE jobs \in BlobOptions(src) : jobs # << >>, TRUE)]
    /\ learned = NoLearned
    /\ canonical = NoFile
    /\ dated = [d \in Days |-> NoDated]
    /\ new_ai = NoFile
    /\ rm_ai = NoFile
    /\ argv \in CommandLines
    /\ last = Observed("init", FALSE, 0, << >>, FALSE)
    /\ call = Idle

Next == Run \/ NextDay \/ Expire \/ ClearDatedSnapshots

Spec == Init /\ [][Next]_vars

-----------------------------------------------------------------------------
(* The adapters on single postings *)

\* the pipeline at rest while a function is studied on its own
AtRest ==
    /\ day = 1
    /\ clock = 1
    /\ blobs = [src \in Sources |->
                  Blob(CHOOSE jobs \in BlobOptions(src) : jobs # << >>, TRUE)]
    /\ learned = NoLearned
    /\ canonical = NoFile
    /\ dated = [d \in Days |-> NoDated]
    /\ new_ai = NoFile
    /\ rm_ai = NoFile
    /\ argv = Args(FALSE, << >>, None)
    /\ last = Observed("init", FALSE, 0, << >>, FALSE)
    /\ call = Idle

Frame == UNCHANGED <<day, clock, blobs, learned, canonical, dated, new_ai, rm_ai, argv, last>>

Call(fn, arg, ret) == [fn |-> fn, arg |-> arg, ret |-> ret]

LocationChars == {"a", " ", "|", ";"}

LocationStrings == UNION {[1..n -> LocationChars] : n \in 0..MaxLen}

ADAPTERS == ATS_ADAPTERS \cup {"google", "tiktok", "amazon", "cursor",
                               "microsoft", "nvidia", "apple", "uber", "meta"}

\* the postings an adapter can be handed: the location as a string where the adapter
\* reads the location field, as a one-entry locations array where it reads the array
PostingsFor(ats) ==
    LET as_field == {JobData(url, loc, << >>) : url \in {"u", ""}, loc \in LocationStrings}
        as_array == {JobData(url, << >>, <<loc>>) : url \in {"u", ""}, loc \in LocationStrings}
    IN  IF ats \in {"microsoft", "nvidia"} THEN as_array
        ELSE IF ats \in {"apple", "uber", "meta"} THEN as_field \cup as_array
        ELSE as_field

ExtractPosting ==
    /\ call.fn = "none"
    /\ \E ats \in ADAPTERS : \E job_data \in PostingsFor(ats) :
          call' = Call("extract_posting", [ats |-> ats, job_data |-> job_data],
                       extract_posting(ats, job_data, <<"Acme">>))
    /\ Frame

SpecAdapters == AtRest /\ [][ExtractPosting]_vars

\* the location string of a posting, whichever way it is given
LocationOf(job_data) ==
    IF job_data.locations # << >> THEN job_data.locations[1] ELSE job_data.location

\* the trimmed non-empty fragments of a location string: split on "|" if there is one,
\* on ";" otherwise
Fragments(location_str) ==
    LET sep == IF \E i \in 1..Len(location_str) : location_str[i] = "|" THEN "|" ELSE ";"
        pieces == SplitOn(location_str, sep, << >>)
    IN  SelectSeq([i \in 1..Len(pieces) |-> Strip(pieces[i])], LAMBDA f : f # << >>)

\* C8: for every adapter, a posting with N non-empty location fragments yields N rows,
\* one per fragment in fragment order, alike in every other field; a posting without a
\* non-empty fragment yields one row with an empty location.
C8_OneRowPerFragment ==
    (call.fn = "extract_posting" /\ call.arg.job_data.url # "") =>
        LET fragments == Fragments(LocationOf(call.arg.job_data))
            expected == IF fragments # << >> THEN fragments ELSE << << >> >>
        IN  call.ret = LocationRows(call.arg.job_data.url, expected,
                                    call.arg.ats, <<"Acme">>)

-----------------------------------------------------------------------------
(* The adapters' posted_at and the run's date stamp *)

TimestampTexts ==
    { << >>, <<"x">>, DATE, SLASH_DATE, DATE \o <<" ">> \o TIME }
    \cup { DATE \o <<"T">> \o TIME \o frac \o zone :
              frac \in {<< >>, FRACTION},
              zone \in {<< >>, <<"Z">>, <<"+00:00">>, <<"+02:00">>} }

TimestampValues == {Null, Num} \cup {Str(text) : text \in TimestampTexts}

TimestampFields == {"publishedAt", "updated_at", "first_published", "createdAt",
                    "created_on", "published_on", "created_at", "createdDate",
                    "posted_at", "updated_time", "postingDate", "creation_date"}

\* the timestamp fields an adapter reads
FieldsRead(ats) ==
    CASE ats = "ashby" -> {"publishedAt"}
      [] ats = "greenhouse" -> {"updated_at", "first_published"}
      [] ats = "lever" -> {"createdAt"}
      [] ats = "rippling" -> {"created_on"}
      [] ats = "workable" -> {"published_on", "created_at"}
      [] ats = "amazon" -> {"createdDate"}
      [] ats \in {"microsoft", "nvidia"} -> {"posted_at"}
      [] ats = "meta" -> {"updated_time"}
      [] ats = "apple" -> {"postingDate"}
      [] ats = "uber" -> {"creation_date"}
      [] OTHER -> {}

\* the postings whose other timestamp fields are null
RawJobsFor(ats) ==
    {[f \in TimestampFields |-> IF f \in FieldsRead(ats) THEN read[f] ELSE Null] :
        read \in [FieldsRead(ats) -> TimestampValues]}

PostedAt ==
    /\ call.fn = "none"
    /\ \E ats \in ADAPTERS : \E raw_job \in RawJobsFor(ats) :
          call' = Call("posted_at", [ats |-> ats, raw_job |-> raw_job],
                       posted_at(ats, raw_job))
    /\ Frame

\* main(): current_datetime = normalize_datetime_to_utc_iso(datetime.now(timezone.utc))
StampNow ==
    /\ call.fn = "none"
    /\ \E micro \in BOOLEAN :
          call' = Call("date", Datetime(micro, "+00:00"),
                       normalize_datetime_to_utc_iso(Datetime(micro, "+00:00")))
    /\ Frame

SpecTimestamps == AtRest /\ [][PostedAt \/ StampNow]_vars

\* C9: every non-empty posted_at an adapter emits, and every date a run stamps, has
\* the form YYYY-MM-DDTHH:MM:SSZ.
C9_TimestampsNormalized ==
    (call.fn \in {"posted_at", "date"} /\ call.ret # Null /\ call.ret # Str(<< >>)) =>
        call.ret = Str(DATE \o <<"T">> \o TIME \o <<"Z">>)

\* the timestamp one source field yields on its own: what the adapter's parser for
\* that source makes of the field's value, nothing when the field is absent or empty
FieldYields(ats, value) ==
    IF ~Truthy(value) THEN Null
    ELSE IF ats = "workable" THEN _date_to_iso(value)
    ELSE IsoOrNone(value)

\* the two fields of the sources that have a fallback, in the order listed
ListedFields(ats) ==
    IF ats = "greenhouse" THEN <<"updated_at", "first_published">>
    ELSE <<"published_on", "created_at">>

\* C26: posted_at is derived from the first listed source field that yields a valid
\* timestamp (greenhouse updated_at, otherwise first_published; workable published_on,
\* otherwise created_at): the second field is used whenever the first is absent or
\* cannot be parsed, and posted_at is empty only when neither field yields one.
C26_PostedAtFromFirstFieldThatYields ==
    (call.fn = "posted_at" /\ call.arg.ats \in {"greenhouse", "workable"}) =>
        LET first == FieldYields(call.arg.ats, call.arg.raw_job[ListedFields(call.arg.ats)[1]])
            second == FieldYields(call.arg.ats, call.arg.raw_job[ListedFields(call.arg.ats)[2]])
        IN  call.ret = IF first # Null THEN first ELSE second

\* the same for workable alone
C26_HoldsForWorkable ==
    (call.fn = "posted_at" /\ call.arg.ats = "workable") =>
        LET first == FieldYields("workable", call.arg.raw_job.published_on)
            second == FieldYields("workable", call.arg.raw_job.created_at)
        IN  call.ret = IF first # Null THEN first ELSE second

-----------------------------------------------------------------------------
(* check_json_freshness on its own *)

\* times are counted in quarters of an hour
Times == 0..MaxTime

\* max_age_hours: 0.25 (the default) and 1.0 (the aggregator's), in quarters of an hour
MaxAges == {1, 4}

LastScraped(kind, at) == [kind |-> kind, at |-> at]

JsonFile(exists, parses, top, last_scraped, mtime) ==
    [exists |-> exists, parses |-> parses, top |-> top,
     last_scraped |-> last_scraped, mtime |-> mtime]

\* a missing file, a file that is not JSON, a top-level list, and objects whose
\* last_scraped is absent, null, "", not a timestamp, a number, a timestamp with an
\* offset, or a naive timestamp
JsonFiles ==
    { JsonFile(FALSE, FALSE, "none", LastScraped("absent", 0), 0) }
    \cup { JsonFile(TRUE, FALSE, "none", LastScraped("absent", 0), m) : m \in Times }
    \cup { JsonFile(TRUE, TRUE, "list", LastScraped("absent", 0), m) : m \in Times }
    \cup { JsonFile(TRUE, TRUE, "object", LastScraped(k, 0), m) :
              k \in {"absent", "null", "empty", "garbage", "number"}, m \in Times }
    \cup { JsonFile(TRUE, TRUE, "object", LastScraped(k, at), m) :
              k \in {"aware", "naive"}, at \in Times, m \in Times }

CheckFreshness ==
    /\ call.fn = "none"
    /\ \E json_file \in JsonFiles, max_age_hours \in MaxAges, now \in Times :
          call' = Call("check_json_freshness",
                       [json_file |-> json_file, max_age_hours |-> max_age_hours,
                        now |-> now],
                       check_json_freshness(json_file, max_age_hours, now))
    /\ Frame

SpecFreshness == AtRest /\ [][CheckFreshness]_vars

\* C10: for an existing blob that parses as JSON and has no usable last_scraped (the
\* field is missing, empty or unparseable, or the top level is a list),
\* check_json_freshness returns true exactly when now - mtime < max_age_hours.
C10_FallsBackToMtime ==
    (/\ call.fn = "check_json_freshness"
     /\ call.arg.json_file.exists
     /\ call.arg.json_file.parses
     /\ \/ call.arg.json_file.top = "list"
        \/ call.arg.json_file.last_scraped.kind \in {"absent", "null", "empty", "garbage"})
    => (call.ret <=> (call.arg.now - call.arg.json_file.mtime < call.arg.max_age_hours))

-----------------------------------------------------------------------------
(* The adapters on whole blobs: what is caught, what is skipped, what propagates *)

\* an entry of the job list: a dict the adapter can use, a dict with a field of the
\* wrong type (say "title": 7), or a value that is not a dict
EntryKinds == {"valid", "invalid", "not_dict"}

\* a blob: whether it is JSON, its top-level type, the type of its job-list field,
\* and the entries of the job list (of the top-level list when that is the job list)
JsonBlob(parses, top, job_list, entries) ==
    [parses |-> parses, top |-> top, job_list |-> job_list, entries |-> entries]

\* what an adapter call does: it raises, or it returns rows; the rows are named by the
\* positions of the entries they come from
Returned(rows) == [raised |-> FALSE, rows |-> rows]

Raised == [raised |-> TRUE, rows |-> << >>]

\* the loop over job_list. on[kind] is what the loop body does with an entry: "row"
\* (rows appended), "skip" (except ValidationError: continue), "caught" (an exception
\* the function's own handler catches: the loop ends, the rows so far are returned),
\* "raise" (an exception no handler catches)
RECURSIVE JobLoop(_, _, _, _)
JobLoop(entries, i, jobs, on) ==
    IF i > Len(entries) THEN Returned(jobs)
    ELSE CASE on[entries[i]] = "row"    -> JobLoop(entries, i + 1, Append(jobs, i), on)
           [] on[entries[i]] = "skip"   -> JobLoop(entries, i + 1, jobs, on)
           [] on[entries[i]] = "caught" -> Returned(jobs)
           [] on[entries[i]] = "raise"  -> Raised

\* AshbyApiResponse(**data) validates the whole response before any row is built;
\* only JSONDecodeError and ValidationError are caught
extract_ashby_jobs(json_file) ==
    IF ~json_file.parses THEN Returned(<< >>)
    ELSE IF json_file.top # "object" THEN Raised
    ELSE IF json_file.job_list # "list" THEN Returned(<< >>)
    ELSE IF \E i \in 1..Len(json_file.entries) : json_file.entries[i] # "valid"
    THEN Returned(<< >>)
    ELSE JobLoop(json_file.entries, 1, << >>, [kind \in EntryKinds |-> "row"])

\* GreenhouseJob(**job_data) per entry; every Exception is caught by the function
extract_greenhouse_jobs(json_file) ==
    IF ~json_file.parses THEN Returned(<< >>)
    ELSE IF json_file.top # "object" THEN Returned(<< >>)
    ELSE IF json_file.job_list # "list" THEN Returned(<< >>)
    ELSE JobLoop(json_file.entries, 1, << >>,
            [valid |-> "row", invalid |-> "skip", not_dict |-> "caught"])

\* LeverJob(**job_data) / WorkableJob(**job_data) per entry; a top-level list is the
\* job list; only JSONDecodeError and ValidationError are caught
extract_lever_jobs(json_file) ==
    IF ~json_file.parses THEN Returned(<< >>)
    ELSE IF json_file.top = "scalar" THEN Raised
    ELSE IF json_file.top = "object" /\ json_file.job_list # "list" THEN Returned(<< >>)
    ELSE JobLoop(json_file.entries, 1, << >>,
            [valid |-> "row", invalid |-> "skip", not_dict |-> "raise"])

extract_workable_jobs(json_file) == extract_lever_jobs(json_file)

\* no model: the fields are read with job_data.get(...); every Exception is caught
extract_rippling_jobs(json_file) ==
    IF ~json_file.parses THEN Returned(<< >>)
    ELSE IF json_file.top # "object" THEN Returned(<< >>)
    ELSE IF json_file.job_list # "list" THEN Returned(<< >>)
    ELSE JobLoop(json_file.entries, 1, << >>,
            [valid |-> "row", invalid |-> "caught", not_dict |-> "caught"])

\* google, tiktok, microsoft, nvidia, amazon, meta, cursor, apple, uber: a top-level
\* list is the job list; every Exception is caught
extract_special_jobs(json_file) ==
    IF ~json_file.parses THEN Returned(<< >>)
    ELSE IF json_file.top = "scalar" THEN Returned(<< >>)
    ELSE IF json_file.top = "object" /\ json_file.job_list # "list" THEN Returned(<< >>)
    ELSE JobLoop(json_file.entries, 1, << >>,
            [valid |-> "row", invalid |-> "caught", not_dict |-> "caught"])

extract_blob(ats, json_file) ==
    CASE ats = "ashby" -> extract_ashby_jobs(json_file)
      [] ats = "greenhouse" -> extract_greenhouse_jobs(json_file)
      [] ats = "lever" -> extract_lever_jobs(json_file)
      [] ats = "workable" -> extract_workable_jobs(json_file)
      [] ats = "rippling" -> extract_rippling_jobs(json_file)
      [] OTHER -> extract_special_jobs(json_file)

EntryLists == UNION {[1..n -> EntryKinds] : n \in 0..MaxLen}

\* text that is not JSON; a top-level string or number; a top-level list; an object
\* without a job list, with a job list that is not a list, and with a job list
JsonBlobs ==
    { JsonBlob(FALSE, "none", "absent", << >>),
      JsonBlob(TRUE, "scalar", "absent", << >>),
      JsonBlob(TRUE, "object", "absent", << >>),
      JsonBlob(TRUE, "object", "other", << >>) }
    \cup { JsonBlob(TRUE, "list", "absent", entries) : entries \in EntryLists }
    \cup { JsonBlob(TRUE, "object", "list", entries) : entries \in EntryLists }

ExtractBlob ==
    /\ call.fn = "none"
    /\ \E ats \in ADAPTERS : \E json_file \in JsonBlobs :
          call' = Call("extract_blob", [ats |-> ats, json_file |-> json_file],
                       extract_blob(ats, json_file))
    /\ Frame

SpecBlobs == AtRest /\ [][ExtractBlob]_vars

\* the job list of a blob is where the adapter looks for it
HasJobList(ats, json_file) ==
    /\ json_file.parses
    /\ \/ json_file.top = "object" /\ json_file.job_list = "list"
       \/ json_file.top = "list" /\ ats \notin {"ashby", "greenhouse", "rippling"}

ValidEntries(entries) == SelectSeq([i \in 1..Len(entries) |-> i],
                                   LAMBDA i : entries[i] = "valid")

\* C13: for every ATS adapter, when a job entry of a company blob fails to parse or
\* validate, exactly that entry is skipped: the adapter does not raise and emits the
\* rows of every valid entry of the blob.
C13_BadEntrySkipped ==
    (/\ call.fn = "extract_blob"
     /\ call.arg.ats \in ATS_ADAPTERS
     /\ HasJobList(call.arg.ats, call.arg.json_file)
     /\ \E i \in 1..Len(call.arg.json_file.entries) :
           call.arg.json_file.entries[i] # "valid")
    => call.ret = Returned(ValidEntries(call.arg.json_file.entries))

\* C14: for every adapter, a blob that cannot be read as the expected structure (text
\* that is not JSON, an unexpected top-level type, a job list that is not a list, an
\* entry that is not a dict) makes the adapter return an empty list without raising.
C14_UnreadableBlobGivesNoRows ==
    (/\ call.fn = "extract_blob"
     /\ \/ ~HasJobList(call.arg.ats, call.arg.json_file)
        \/ \E i \in 1..Len(call.arg.json_file.entries) :
              call.arg.json_file.entries[i] = "not_dict")
    => call.ret = Returned(<< >>)

-----------------------------------------------------------------------------
(* The gather phase of main() on its own: resolution, freshness gate, refresh hooks *)

NoBlob == [exists |-> FALSE, jobs |-> << >>, fresh |-> FALSE]

\* a source's blob: missing, or any scrape result, fresh or older than the window
BlobStates(src) ==
    {NoBlob} \cup {Blob(jobs, fresh) : jobs \in BlobOptions(src), fresh \in BOOLEAN}

LearnedFile(map) == [exists |-> TRUE, map |-> map]

\* ai_companies.json: absent, empty, what a full run learns, and entries naming an ATS
\* whose registry does not list the company
LearnedFiles == {
    NoLearned,
    LearnedFile(<< >>),
    LearnedFile(<< [k |-> <<"acme">>, v |-> "ashby"],
                   [k |-> <<"bolt">>, v |-> "greenhouse"],
                   [k |-> <<"core">>, v |-> "ashby"] >>),
    LearnedFile(<< [k |-> <<"bolt">>, v |-> "ashby"] >>),
    LearnedFile(<< [k |-> <<"acme">>, v |-> "lever"] >>) }

InitGather ==
    /\ day = 1
    /\ clock = 1
    /\ blobs \in [Sources -> UNION {BlobStates(src) : src \in Sources}]
    /\ \A src \in Sources : blobs[src] \in BlobStates(src)
    /\ learned \in LearnedFiles
    /\ canonical = NoFile
    /\ dated = [d \in Days |-> NoDated]
    /\ new_ai = NoFile
    /\ rm_ai = NoFile
    /\ argv \in CommandLines
    /\ last = Observed("init", FALSE, 0, << >>, FALSE)
    /\ call = Idle

\* main() up to its "jobs" list: every gather_jobs_for_companies call of the run
Gather ==
    /\ call.fn = "none"
    /\ \E out \in GatherOutcomes(argv) :
          /\ blobs' = out.blobs
          /\ call' = Call("gather", [args |-> argv, blobs |-> blobs], out)
    /\ UNCHANGED <<day, clock, learned, canonical, dated, new_ai, rm_ai, argv, last>>

SpecGather == InitGather /\ [][Gather]_vars

\* the ATS filter a run resolves a company name with
AtsFilter(args, name) ==
    IF UsesBuiltinList(args) /\ args.ats = None
    THEN LET ai_map == load_ai_companies(learned)
             key == normalize_company_name(name)
         IN  IF DictHas(ai_map, key) THEN DictGet(ai_map, key) ELSE None
    ELSE args.ats

\* the company names a run searches for
CompaniesToSearch(args) ==
    IF UsesBuiltinList(args) THEN DictKeys(load_ai_companies(learned)) ELSE args.companies

\* the sources a run resolves
ResolvedSources(args) ==
    UNION { { <<m.ats, m.slug>> :
                m \in Range(find_companies_by_name(name, AtsFilter(args, name))) }
            : name \in Range(CompaniesToSearch(args)) }

\* the positions of the log where the hook of src returned / the blob of src was parsed
HooksOf(log, src) == {i \in 1..Len(log) : log[i].ev = "hook" /\ log[i].src = src}

ParsesOf(log, src) == {i \in 1..Len(log) : log[i].ev = "parse" /\ log[i].src = src}

\* C11: for each resolved ATS source whose blob exists, a run invokes the refresh hook
\* at most once, and does so if and only if the blob is not fresh under the 1-hour
\* window; the blob is parsed only after the hook has returned.
C11_RefreshOnceIffStale ==
    call.fn = "gather" =>
        \A src \in ResolvedSources(call.arg.args) :
            call.arg.blobs[src].exists =>
                LET hooks == HooksOf(call.ret.log, src)
                    parses == ParsesOf(call.ret.log, src)
                IN  /\ Cardinality(hooks) <= 1
                    /\ (hooks # {}) <=> ~IsFresh(call.arg.blobs[src])
                    /\ hooks # {} => \A p \in parses : \E h \in hooks : h < p

\* the blobs a run has to parse, in order: one per match whose blob is on disk
RECURSIVE SourcesToParse(_, _, _)
SourcesToParse(args, names, bl) ==
    IF names = << >> THEN << >>
    ELSE LET matches == find_companies_by_name(Head(names), AtsFilter(args, Head(names)))
             srcs == [i \in 1..Len(matches) |-> <<matches[i].ats, matches[i].slug>>]
         IN  SelectSeq(srcs, LAMBDA src : src \in Sources /\ bl[src].exists)
                \o SourcesToParse(args, Tail(names), bl)

\* the names of a run in the order main() hands them to gather_jobs_for_companies
NamesInGatherOrder(args) ==
    IF UsesBuiltinList(args) /\ args.ats = None
    THEN Concat(DictValues(GroupByAts(CompaniesToSearch(args),
                                      load_ai_companies(learned), << >>)))
    ELSE CompaniesToSearch(args)

ParsedInOrder(log) ==
    LET parses == SelectSeq(log, LAMBDA e : e.ev = "parse")
    IN  [i \in 1..Len(parses) |-> parses[i].src]

HookFailed(log) == \E i \in 1..Len(log) : log[i].ev = "hook" /\ ~log[i].ok

ListedSources ==
    UNION { { <<m.ats, m.slug>> : m \in Range(find_companies_by_name(name, None)) }
            : name \in Range(DictKeys(AI_COMPANIES_DEFAULT)) }

\* C15: in a default (built-in list) run, whatever the learned-ATS map holds, every
\* company that some ATS registry lists and that has a blob on disk is resolved: its
\* blob is parsed and its jobs are among the run's rows.
C15_LearnedMapOnlyOptimizes ==
    (call.fn = "gather" /\ UsesBuiltinList(call.arg.args) /\ call.arg.args.ats = None) =>
        \A src \in ListedSources :
            call.arg.blobs[src].exists =>
                /\ ParsesOf(call.ret.log, src) # {}
                /\ Urls(call.ret.blobs[src].jobs) \subseteq Urls(call.ret.jobs)

-----------------------------------------------------------------------------
(* The learned-ATS map update of main() on its own *)

JobRow(company, ats_type) ==
    [url |-> "u", location |-> <<"x">>, company |-> company, ats_type |-> ats_type]

\* rows of a run: from the ATS adapters, a company seen on two ATS, and the rows the
\* bespoke Google adapter adds (jobs.extend(special_jobs))
JobRows == { JobRow(<<"Acme", "Inc">>, "ashby"), JobRow(<<"Bolt">>, "greenhouse"),
             JobRow(<<"Bolt">>, "lever"), JobRow(<<"Google">>, "google") }

JobLists == UNION {[1..n -> JobRows] : n \in 0..MaxLen}

InitLearn ==
    /\ day = 1
    /\ clock = 1
    /\ blobs = [src \in Sources |->
                  Blob(CHOOSE jobs \in BlobOptions(src) : jobs # << >>, TRUE)]
    /\ learned \in LearnedFiles
    /\ canonical = NoFile
    /\ dated = [d \in Days |-> NoDated]
    /\ new_ai = NoFile
    /\ rm_ai = NoFile
    /\ argv \in CommandLines
    /\ last = Observed("init", FALSE, 0, << >>, FALSE)
    /\ call = Idle

\* main() from the gathered jobs to save_ai_companies
Learn ==
    /\ call.fn = "none"
    /\ \E jobs \in JobLists :
          /\ learned' = LearnedAfter(argv, jobs)
          /\ call' = Call("learn", [args |-> argv, jobs |-> jobs, learned |-> learned],
                          LearnedAfter(argv, jobs))
    /\ UNCHANGED <<day, clock, blobs, canonical, dated, new_ai, rm_ai, argv, last>>

SpecLearn == InitLearn /\ [][Learn]_vars

\* the ats_type values the rows of a company carry
ObservedAts(jobs, key, types) ==
    { jobs[i].ats_type : i \in { j \in 1..Len(jobs) :
          normalize_company_name(jobs[j].company) = key /\ jobs[j].ats_type \in types } }

CompanyKeys(jobs, types) ==
    { normalize_company_name(jobs[i].company) :
          i \in { j \in 1..Len(jobs) : jobs[j].ats_type \in types } }

SingleOrNone(ats_set) ==
    IF Cardinality(ats_set) = 1 THEN CHOOSE a \in ats_set : TRUE ELSE None

DefaultListRunWithJobs ==
    call.fn = "learn" /\ UsesBuiltinList(call.arg.args) /\ call.arg.jobs # << >>

AllAtsTypes == ADAPTERS

\* C16, as stated: after a default-list run that produced jobs, for every company with
\* at least one row, from an ATS adapter or a bespoke adapter, ai_companies.json holds
\* the single ats_type observed for it if exactly one was observed, and null otherwise.
C16_LearnedHoldsObservedAts ==
    DefaultListRunWithJobs =>
        /\ learned.exists
        /\ \A key \in CompanyKeys(call.arg.jobs, AllAtsTypes) :
              /\ DictHas(learned.map, key)
              /\ DictGet(learned.map, key)
                    = SingleOrNone(ObservedAts(call.arg.jobs, key, AllAtsTypes))

\* C16, amended: after such a run, for every company with at least one row from an ATS
\* adapter, ai_companies.json holds the single ATS type among those rows if there is
\* exactly one, and null otherwise; every other entry, those of companies with rows
\* from bespoke adapters only included, is as it was loaded.
C16_LearnedHoldsObservedAtsOfAtsRows ==
    DefaultListRunWithJobs =>
        LET loaded == load_ai_companies(call.arg.learned)
            keys == CompanyKeys(call.arg.jobs, ATS_ADAPTERS)
        IN  /\ learned.exists
            /\ \A key \in keys :
                  /\ DictHas(learned.map, key)
                  /\ DictGet(learned.map, key)
                        = SingleOrNone(ObservedAts(call.arg.jobs, key, ATS_ADAPTERS))
            /\ \A i \in 1..Len(loaded) :
                  loaded[i].k \notin keys =>
                     DictHas(learned.map, loaded[i].k)
                        /\ DictGet(learned.map, loaded[i].k) = loaded[i].v
            /\ \A i \in 1..Len(learned.map) :
                  learned.map[i].k \in keys \/ DictHas(loaded, learned.map[i].k)

\* a default-list run saw one company on one ATS, one on two, and Google's own rows
C16_Witness ==
    /\ DefaultListRunWithJobs
    /\ \E key \in CompanyKeys(call.arg.jobs, ATS_ADAPTERS) :
          Cardinality(ObservedAts(call.arg.jobs, key, ATS_ADAPTERS)) = 2
             /\ DictGet(learned.map, key) = None
    /\ \E i \in 1..Len(call.arg.jobs) : call.arg.jobs[i].ats_type = "google"
    /\ call.arg.learned.exists /\ call.arg.learned.map # << >>

-----------------------------------------------------------------------------
(* The resolver on its own, over registry files of every shape *)

\* a line of a registry CSV as DictReader gives it
Row(name, url) == [name |-> name, url |-> url]

\* a short line: the name and no url field
ShortRow(name) == [name |-> name]

\* the lines the ashby registry is made of: two spellings of one company whose slugs
\* differ by case only, a second board of it, another company, a line with an empty
\* url, a line with an empty name, a short line
RegistryRows ==
    {Row(<<"Acme", "Inc">>, <<"acme">>), Row(<<"acme">>, <<"Acme">>),
     Row(<<"Acme">>, <<"acme2">>), Row(<<"Bolt">>, <<"bolt">>),
     Row(<<"Acme">>, << >>), Row(<< >>, <<"none">>), ShortRow(<<"Broken">>)}

Registries ==
    {[ashby      |-> rows,
      greenhouse |-> gh,
      lever      |-> << >>,
      workable   |-> << >>,
      rippling   |-> << Row(<<"Acme">>, <<"acme", "jobs">>) >>] :
        rows \in ListsUpTo(RegistryRows, MaxLen),
        gh \in {<< >>, << Row(<<"Acme", "Co">>, <<"acme">>) >>}}

\* the names asked for and the --ats filter (None: every ATS)
Queries == {<<"Acme">>, <<"Bolt", "Inc">>, << >>}

AtsFilters == {None, "ashby", "greenhouse", "nope"}

Resolve ==
    /\ call.fn = "none"
    /\ \E registry \in Registries, name \in Queries, ats \in AtsFilters :
          call' = Call("resolve", [registry |-> registry, name |-> name, ats |-> ats],
                       FindCompanies(registry, name, ats))
    /\ UNCHANGED <<canonical, dated, rm_ai, new_ai, learned, blobs, day, clock, argv, last>>

SpecResolve == AtRest /\ [][Resolve]_vars

\* the ATSs in scope, in scan order
AtsInScope(ats) ==
    IF ats = None THEN ATS_CONFIGS ELSE SelectSeq(ATS_CONFIGS, LAMBDA a : a = ats)

UrlOf(row) == IF "url" \in DOMAIN row THEN row.url ELSE << >>

\* the rows of one registry whose normalized name equals the normalized query
MatchingRows(registry, ats, name) ==
    LET rows == SelectSeq(registry[ats],
                    LAMBDA row : normalize_company_name(row.name) = normalize_company_name(name))
    IN  [i \in 1..Len(rows) |->
            [ats |-> ats, slug |-> extract_slug_from_url(UrlOf(rows[i]), ats),
             name |-> rows[i].name]]

RECURSIVE PickAt(_, _, _)
PickAt(seq, i, keep) ==
    IF i > Len(seq) THEN << >>
    ELSE (IF i \in keep THEN <<seq[i]>> ELSE << >>) \o PickAt(seq, i + 1, keep)

\* of the hits with one (ats_type, lowercased slug), the first one seen
FirstPerKey(hits) ==
    LET key(i) == <<hits[i].ats, LowerSlug(hits[i].slug)>>
    IN  PickAt(hits, 1, {i \in 1..Len(hits) : \A j \in 1..(i - 1) : key(j) # key(i)})

\* C20: resolve(name, ats_filter) returns exactly the registry rows of the ATSs in scope
\* whose normalized name equals the normalized query, keeping at most one result per
\* (ats_type, lowercased slug), namely the first one seen, in registry scan order.
C20_ResolverReturnsFirstMatches ==
    call.fn = "resolve" =>
        LET scope == AtsInScope(call.arg.ats)
        IN  call.ret = FirstPerKey(Concat([i \in 1..Len(scope) |->
                            MatchingRows(call.arg.registry, scope[i], call.arg.name)]))

-----------------------------------------------------------------------------
(* Enrichment: salary (if missing) and experience (always) from the descriptions *)

MaxJobs == 2

\* a salary string is the sequence of its parts, as extract_salary_from_description
\* formats it: currency symbol and amount, once or twice around a "-"
SalaryStrings == {<<"$", "100000", "-", "$", "150000">>, <<"€", "50000">>, <<"¥", "900000">>}

\* str(experience_years)
StrInt(n) == CASE n = 0 -> "0" [] n = 3 -> "3" [] n = 5 -> "5"

\* what the blobs hold for one posting: the salary its text states (Null: none) and
\* the years it asks for (<< >>: none); NoDescription when the lookup returns None
Description(salary, years) == [found |-> TRUE, salary |-> salary, years |-> years]

NoDescription == [found |-> FALSE, salary |-> Null, years |-> << >>]

Descriptions ==
    {NoDescription}
    \cup {Description(sal, y) : sal \in {Null} \cup {Str(t) : t \in SalaryStrings},
                                y \in {<< >>, <<0>>, <<3>>}}

\* the lookup reads the job's url, company, title, ats_id and ats_type and the blobs,
\* none of which enrichment writes; descs is the blobs' url -> description
get_job_description_fast(job, descs) == descs[job.url]

extract_salary_from_description(description) == description.salary

extract_experience_from_description(description) == description.years

\* the currency of parse_salary's result: by symbol, USD when none is recognised
parse_salary(salary_str) ==
    IF "$" \in Range(salary_str.text) THEN Str(<<"USD">>)
    ELSE IF "€" \in Range(salary_str.text) THEN Str(<<"EUR">>)
    ELSE IF "£" \in Range(salary_str.text) THEN Str(<<"GBP">>)
    ELSE Str(<<"USD">>)

\* str(job.get(field, "") or "").strip() is not empty
Filled(field) == field # ""

Experience(job, description) ==
    LET experience_years == extract_experience_from_description(description)
    IN  [job EXCEPT !.experience =
            IF experience_years # << >> THEN Str(<<StrInt(experience_years[1])>>) ELSE Null]

EnrichJob_always_extracts(job, descs) ==
    IF ~Filled(job.url) \/ ~Filled(job.company) \/ ~Filled(job.title) THEN job
    ELSE LET description == get_job_description_fast(job, descs)
         IN  IF ~description.found THEN [job EXCEPT !.experience = Null]
             ELSE LET salary_str == extract_salary_from_description(description)
                      with_salary ==
                          IF Truthy(salary_str)
                          THEN [job EXCEPT !.salary_summary = salary_str,
                                           !.salary_currency = parse_salary(salary_str)]
                          ELSE job
                  IN  Experience(with_salary, description)

EnrichJob_currency_on_next_pass(job, descs) ==
    IF ~Filled(job.url) \/ ~Filled(job.company) \/ ~Filled(job.title) THEN job
    ELSE LET description == get_job_description_fast(job, descs)
         IN  IF ~description.found THEN [job EXCEPT !.experience = Null]
             ELSE LET salary_str == extract_salary_from_description(description)
                      with_salary ==
                          IF Truthy(job.salary_summary)
                          THEN IF Truthy(job.salary_currency) THEN job
                               ELSE [job EXCEPT !.salary_currency =
                                                    parse_salary(job.salary_summary)]
                          ELSE IF Truthy(salary_str)
                               THEN [job EXCEPT !.salary_summary = salary_str]
                               ELSE job
                  IN  Experience(with_salary, description)

\* one iteration of the loop of enrich_jobs_with_description_data
EnrichJob(job, descs) ==
    IF ~Filled(job.url) \/ ~Filled(job.company) \/ ~Filled(job.title) THEN job
    ELSE LET description == get_job_description_fast(job, descs)
         IN  IF ~description.found THEN [job EXCEPT !.experience = Null]
             ELSE LET salary_str == extract_salary_from_description(description)
                      with_salary ==
                          IF ~Truthy(job.salary_summary) /\ Truthy(salary_str)
                          THEN [job EXCEPT
                                  !.salary_summary = salary_str,
                                  !.salary_currency =
                                      IF ~Truthy(job.salary_currency)
                                      THEN parse_salary(salary_str) ELSE @]
                          ELSE job
                  IN  Experience(with_salary, description)

enrich_jobs_with_description_data(jobs, descs) ==
    [i \in 1..Len(jobs) |-> EnrichJob(jobs[i], descs)]

\* the jobs handed to enrichment: the fields it reads and the fields it writes
EnrichUrls == {"u1", "u2"}

EnrichInput(url, title, summary, currency, experience) ==
    [url |-> url, company |-> "Acme", title |-> title, salary_summary |-> summary,
     salary_currency |-> currency, salary_period |-> IF Truthy(summary) THEN Str(<<"year">>) ELSE Null,
     experience |-> experience]

EnrichInputs ==
    {EnrichInput(u, "Engineer", sm, cu, Null) :
        u \in EnrichUrls, sm \in {Null, Str(<<"£", "70000">>)},
        cu \in {Null, Str(<<"GBP">>)}}
    \cup {EnrichInput("u1", "", Null, Null, Null),
          EnrichInput("u1", "Engineer", Str(<< >>), Null, Str(<<"5">>)),
          EnrichInput("u2", "Engineer", Str(<<"£", "70000">>), Null, Str(<<"5">>))}

Enrich ==
    /\ call.fn = "none"
    /\ \E jobs \in ListsUpTo(EnrichInputs, MaxJobs), descs \in [EnrichUrls -> Descriptions] :
          call' = Call("enrich", [jobs |-> jobs, descs |-> descs],
                       enrich_jobs_with_description_data(jobs, descs))
    /\ UNCHANGED <<canonical, dated, rm_ai, new_ai, learned, blobs, day, clock, argv, last>>

SpecEnrich == AtRest /\ [][Enrich]_vars

\* C18: enrichment never changes salary_summary, salary_currency or salary_period of a
\* job whose salary_summary is non-empty on input; the only field of such a job it may
\* change is experience.
C18_SalaryOfJobWithSummaryUntouched ==
    call.fn = "enrich" =>
        \A i \in 1..Len(call.arg.jobs) :
            Truthy(call.arg.jobs[i].salary_summary) =>
                call.ret[i] = [call.arg.jobs[i] EXCEPT !.experience = call.ret[i].experience]

\* a job with a salary summary and no currency whose description states another salary,
\* and whose experience enrichment did change
C18_Witness ==
    /\ call.fn = "enrich"
    /\ \E i \in 1..Len(call.arg.jobs) :
          LET job == call.arg.jobs[i]
          IN  /\ Truthy(job.salary_summary)
              /\ ~Truthy(job.salary_currency)
              /\ call.arg.descs[job.url].found
              /\ Truthy(call.arg.descs[job.url].salary)
              /\ call.ret[i].experience # job.experience

\* C19: applying the enrichment pass a second time to its own output, over the same
\* blobs, changes no field of any job.
C19_EnrichmentIdempotent ==
    call.fn = "enrich" =>
        enrich_jobs_with_description_data(call.ret, call.arg.descs) = call.ret

\* the first pass filled in a salary and an experience
C19_Witness ==
    /\ call.fn = "enrich"
    /\ \E i \in 1..Len(call.arg.jobs) :
          /\ call.ret[i].salary_summary # call.arg.jobs[i].salary_summary
          /\ call.ret[i].salary_currency # call.arg.jobs[i].salary_currency
          /\ call.ret[i].experience # call.arg.jobs[i].experience

-----------------------------------------------------------------------------
(* Cloudflare's Greenhouse postings: the real locations behind a workplace type *)

\* a "Job Posting Location" metadata value: null, a string or a list of strings
MetaNull == [kind |-> "null", text |-> << >>, items |-> << >>]
MetaStr(text) == [kind |-> "str", text |-> text, items |-> << >>]
MetaList(items) == [kind |-> "list", text |-> << >>, items |-> items]

Office(location, name) == [location |-> location, name |-> name]

\* job.content: whether "Available Location(s):" is found in it, and the text that
\* follows up to the closing tag, tags removed
NoContent == [found |-> FALSE, location |-> << >>]
Content(location) == [found |-> TRUE, location |-> location]

CloudflareJob(location, metadata, offices, content) ==
    [location |-> location, metadata |-> metadata, offices |-> offices, content |-> content]

\* the metadata entries named "Job Posting Location", in order
RECURSIVE MetadataLocation(_)
MetadataLocation(metadata) ==
    IF metadata = << >> THEN << >>
    ELSE LET value == Head(metadata)
             locations == NonEmptyStripped(value.items)
         IN  IF value.kind = "list" /\ locations # << >> THEN Join(locations, <<";", " ">>)
             ELSE IF value.kind = "str" /\ Strip(value.text) # << >> THEN Strip(value.text)
             ELSE MetadataLocation(Tail(metadata))

\* office.location if it is truthy, else office.name if it is, each stripped
OfficeLocations(offices) ==
    LET named == SelectSeq(offices, LAMBDA o : o.location # << >> \/ o.name # << >>)
    IN  [i \in 1..Len(named) |->
            Strip(IF named[i].location # << >> THEN named[i].location ELSE named[i].name)]

\* << >> stands for None and for the empty string: the caller tests truth only
extract_cloudflare_location_from_metadata(job) ==
    LET from_metadata == MetadataLocation(job.metadata)
    IN  IF from_metadata # << >> THEN from_metadata
        ELSE Join(OfficeLocations(job.offices), <<";", " ">>)

\* the first ;-segment of the location, "in office" and "in-office" written
\* "In-Office", "hybrid" and "distributed" capitalized
WorkplaceType(location_str) ==
    LET workplace_type == Strip(Head(SplitOn(location_str, ";", << >>)))
    IN  IF Len(workplace_type) # 1 THEN workplace_type
        ELSE IF LowerWord(workplace_type[1]) \in {"in office", "in-office"}
             THEN <<"In-Office">>
        ELSE IF LowerWord(workplace_type[1]) = "hybrid" THEN <<"Hybrid">>
        ELSE IF LowerWord(workplace_type[1]) = "distributed" THEN <<"Distributed">>
        ELSE workplace_type

\* f"{loc} ({workplace_type})"
Formatted(loc, workplace_type) == loc \o <<" ", "(">> \o workplace_type \o <<")">>

\* "; ".join of the formatted locations of a resolved location string
FormatLocations(location, workplace_type) ==
    LET locations_list == SelectSeq(split_locations(location), LAMBDA loc : loc # << >>)
        formatted_locations ==
            [i \in 1..Len(locations_list) |-> Formatted(locations_list[i], workplace_type)]
    IN  IF formatted_locations # << >> THEN Join(formatted_locations, <<";", " ">>)
        ELSE location

\* location.rstrip(".,;")
RECURSIVE RStripPunctuation(_)
RStripPunctuation(s) ==
    IF s # << >> /\ s[Len(s)] \in {".", ",", ";"}
    THEN RStripPunctuation(SubSeq(s, 1, Len(s) - 1))
    ELSE s

\* the location of the description, << >> when there is none
DescriptionLocation(content) ==
    IF content.found THEN RStripPunctuation(Strip(content.location)) ELSE << >>

\* wt in location_lower for one of the four workplace types
IsGenericWorkplace(location_str) ==
    \E i \in 1..Len(location_str) :
        LowerWord(location_str[i]) \in {"hybrid", "in-office", "in office", "distributed"}

\* the location string of a greenhouse posting after the Cloudflare branch, and the
\* records appended to the failures file
CloudflareLocation(job, company_name) ==
    IF ~(Len(company_name) = 1 /\ LowerWord(company_name[1]) = "cloudflare"
         /\ IsGenericWorkplace(job.location))
    THEN [location_str |-> job.location, failures |-> 0]
    ELSE LET workplace_type == WorkplaceType(job.location)
             extracted_location == extract_cloudflare_location_from_metadata(job)
             fallback_location == DescriptionLocation(job.content)
         IN  IF extracted_location # << >>
             THEN [location_str |-> FormatLocations(extracted_location, workplace_type),
                   failures |-> 0]
             ELSE IF fallback_location # << >>
             THEN [location_str |-> FormatLocations(fallback_location, workplace_type),
                   failures |-> 0]
             ELSE [location_str |-> job.location, failures |-> 1]

\* the locations of the rows extract_greenhouse_jobs emits for the posting
CloudflareRows(job, company_name) ==
    LET resolved == CloudflareLocation(job, company_name)
    IN  [rows |-> split_locations(
                      normalize_location_by_company(resolved.location_str, company_name)),
         failures |-> resolved.failures]

WorkplaceLocations ==
    {<<"Hybrid">>, <<"hybrid">>, <<"In Office">>, <<"Distributed", ";", " ", "Hybrid">>}

MetadataValues ==
    {<< >>, <<MetaNull>>, <<MetaStr(<<" ">>)>>, <<MetaStr(<<"Austin">>)>>,
     <<MetaList(<< <<"Austin">>, <<"Lisbon">> >>)>>,
     <<MetaList(<< <<"Austin", " ", "|", " ", "Lisbon">>, <<"London">> >>)>>}

OfficeLists ==
    {<< >>, <<Office(<<"London">>, << >>)>>, <<Office(<< >>, <<"Lisbon">>)>>,
     <<Office(<<" ">>, << >>), Office(<<" ">>, << >>)>>}

Contents ==
    {NoContent, Content(<< >>), Content(<<" ", "Austin", ";", " ", "Lisbon", ".">>)}

CloudflareJobs ==
    {CloudflareJob(l, m, o, c) :
        l \in WorkplaceLocations, m \in MetadataValues, o \in OfficeLists, c \in Contents}

ExtractCloudflare ==
    /\ call.fn = "none"
    /\ \E job \in CloudflareJobs, company_name \in {<<"Cloudflare">>, <<"Acme">>} :
          call' = Call("cloudflare", [job |-> job, company_name |-> company_name],
                       CloudflareRows(job, company_name))
    /\ Frame

SpecCloudflare == AtRest /\ [][ExtractCloudflare]_vars

\* the real locations a source names: the trimmed non-empty fragments of its text
MetadataFragments(metadata) ==
    IF metadata = << >> THEN << >>
    ELSE LET value == metadata[1]
         IN  IF value.kind = "list"
             THEN Fragments(Join(NonEmptyStripped(value.items), <<";", " ">>))
             ELSE Fragments(value.text)

OfficeFragments(offices) ==
    Fragments(Join([i \in 1..Len(offices) |->
                       IF offices[i].location # << >> THEN offices[i].location
                       ELSE offices[i].name], <<";", " ">>))

DescriptionFragments(content) ==
    IF content.found THEN Fragments(RStripPunctuation(Strip(content.location))) ELSE << >>

\* the locations of the first source that yields one: metadata, offices, description
ResolvedLocations(job) ==
    IF MetadataFragments(job.metadata) # << >> THEN MetadataFragments(job.metadata)
    ELSE IF OfficeFragments(job.offices) # << >> THEN OfficeFragments(job.offices)
    ELSE DescriptionFragments(job.content)

\* C21: for a Cloudflare Greenhouse job whose location is a generic workplace type, the
\* real locations come from the first source that yields one (metadata, then offices,
\* then the description); each is emitted as its own row "<location> (<workplace type
\* of the first ;-segment>)"; if no source yields a location, one row with the original
\* string is emitted and exactly one failure record is appended.
C21_CloudflareLocationsResolved ==
    (call.fn = "cloudflare" /\ call.arg.company_name = <<"Cloudflare">>) =>
        LET job == call.arg.job
            resolved == ResolvedLocations(job)
        IN  IF resolved # << >>
            THEN /\ call.ret.rows = [i \in 1..Len(resolved) |->
                                        Formatted(resolved[i], WorkplaceType(job.location))]
                 /\ call.ret.failures = 0
            ELSE /\ call.ret.rows = <<job.location>>
                 /\ call.ret.failures = 1

-----------------------------------------------------------------------------
(* extract_salary_from_description: which candidate amounts are returned *)

MaxCandidates == 2

\* an amount as the patterns match it: 1-3 leading digits, ",ddd" groups, then nothing,
\* ".dd" or ".ddd", and an optional k
Amount(lead, groups, dot_digits, dot_value, k) ==
    [lead |-> lead, groups |-> groups, dot_digits |-> dot_digits,
     dot_value |-> dot_value, k |-> k]

\* the digits before the dot, commas removed
RECURSIVE IntPart(_, _)
IntPart(value, groups) ==
    IF groups = << >> THEN value ELSE IntPart(value * 1000 + Head(groups), Tail(groups))

\* amounts are counted in hundredths
Hundredths(n) == n * 100

\* float(group.replace(",", "")): a dot is a decimal point
FloatOf(a) ==
    Hundredths(IntPart(a.lead, a.groups))
        + (IF a.dot_digits = 2 THEN a.dot_value
           ELSE IF a.dot_digits = 3 THEN a.dot_value \div 10 ELSE 0)

\* float(group.replace(",", "").replace(".", "")): the digits after a dot are appended
FloatOfDigits(a) ==
    Hundredths(IF a.dot_digits = 2 THEN IntPart(a.lead, a.groups) * 100 + a.dot_value
               ELSE IF a.dot_digits = 3 THEN IntPart(a.lead, a.groups) * 1000 + a.dot_value
               ELSE IntPart(a.lead, a.groups))

\* if "k" in matched_text.lower() and value < 1000: value *= 1000
TimesK(value, k_in_match) ==
    IF k_in_match /\ value < Hundredths(1000) THEN value * 1000 ELSE value

\* a match of one pattern: a range (two groups) or a single value (one group)
Range2(min, max) == [groups |-> 2, min |-> min, max |-> max]
Single(value) == [groups |-> 1, min |-> value, max |-> value]

NoSalary == [found |-> FALSE, min |-> 0, max |-> 0, match |-> Single(Amount(0, << >>, 0, 0, FALSE))]

\* the loop over the patterns: the first match that passes the checks is returned
RECURSIVE ExtractSalary(_)
ExtractSalary(matches) ==
    IF matches = << >> THEN NoSalary
    ELSE LET match == Head(matches)
             k_in_match == match.min.k \/ match.max.k
             min_float == TimesK(FloatOf(match.min), k_in_match)
             max_float == TimesK(FloatOf(match.max), k_in_match)
             val_float == TimesK(FloatOfDigits(match.min), k_in_match)
         IN  IF match.groups = 2
             THEN IF min_float < Hundredths(20000) \/ max_float > Hundredths(1000000)
                     \/ min_float > max_float
                  THEN ExtractSalary(Tail(matches))
                  ELSE [found |-> TRUE, min |-> min_float, max |-> max_float, match |-> match]
             ELSE IF val_float < Hundredths(20000) \/ val_float > Hundredths(1000000)
                  THEN ExtractSalary(Tail(matches))
                  ELSE [found |-> TRUE, min |-> val_float, max |-> val_float, match |-> match]

\* 100,000  150,000  19,999  1,000,001  100k  150k  250.00  155.000
Amounts ==
    {Amount(100, <<0>>, 0, 0, FALSE), Amount(150, <<0>>, 0, 0, FALSE),
     Amount(19, <<999>>, 0, 0, FALSE), Amount(1, <<0, 1>>, 0, 0, FALSE),
     Amount(100, << >>, 0, 0, TRUE), Amount(150, << >>, 0, 0, TRUE),
     Amount(250, << >>, 2, 0, FALSE), Amount(155, << >>, 3, 0, FALSE)}

\* the matches a description can give: any amount alone, any two amounts that both
\* carry a k or both carry none as a range
Matches ==
    {Single(a) : a \in Amounts}
    \cup UNION {{Range2(a, b) : b \in {x \in Amounts : x.dot_digits = 0 /\ x.k = a.k}} :
                    a \in {x \in Amounts : x.dot_digits = 0}}

ExtractSalaryFrom ==
    /\ call.fn = "none"
    /\ \E matches \in ListsUpTo(Matches, MaxCandidates) :
          call' = Call("salary", matches, ExtractSalary(matches))
    /\ Frame

SpecSalary == AtRest /\ [][ExtractSalaryFrom]_vars

\* what the amount says: k multiplies by 1000, "," and a dot before three digits
\* separate thousands, a dot before two digits is the decimal point
Normalized(a) ==
    LET whole == IF a.dot_digits = 3 THEN IntPart(a.lead, a.groups) * 1000 + a.dot_value
                 ELSE IntPart(a.lead, a.groups)
        cents == IF a.dot_digits = 2 THEN a.dot_value ELSE 0
    IN  (Hundredths(whole) + cents) * (IF a.k THEN 1000 ELSE 1)

\* C22: every salary returned by extract_salary_from_description satisfies
\* 20,000 <= min <= max <= 1,000,000 after numeric normalization; a candidate outside
\* these bounds is never returned.
C22_ReturnedSalaryWithinBounds ==
    (call.fn = "salary" /\ call.ret.found) =>
        /\ Hundredths(20000) <= Normalized(call.ret.match.min)
        /\ Normalized(call.ret.match.min) <= Normalized(call.ret.match.max)
        /\ Normalized(call.ret.match.max) <= Hundredths(1000000)

-----------------------------------------------------------------------------
(* The Workday scraper: WorkdayScraper.scrape_company (src/workday/main.py) *)

\* 200 in the source; two pages show every branch of the page loop
MAX_PAGES == 2

CACHE_HOURS == 24

\* what _fetch gives for one url: (html, status), (None, status), or an exception that
\* is neither ClientResponseError nor aiohttp.ClientError and so leaves _fetch (the
\* asyncio.TimeoutError of REQUEST_TIMEOUT's total, a decoding error of resp.text()).
\* Status 0 stands for None; jobs are the job urls an index page lists
Html(jobs) == [kind |-> "html", status |-> 200, jobs |-> jobs]
NoHtml(status) == [kind |-> "none", status |-> status, jobs |-> << >>]
Raises == [kind |-> "raise", status |-> 0, jobs |-> << >>]

\* <slug>.json
Payload(company, job_count, jobs, status) ==
    [exists |-> TRUE, company |-> company.name, url |-> company.url, slug |-> company.slug,
     job_count |-> job_count, jobs |-> jobs, status |-> status, has_last_request |-> TRUE]

NoPayload ==
    [exists |-> FALSE, company |-> "", url |-> "", slug |-> "", job_count |-> 0,
     jobs |-> << >>, status |-> 0, has_last_request |-> FALSE]

CompanyRow(name, url, slug) == [name |-> name, url |-> url, slug |-> slug]

\* age is the hours since last_request of the existing file
should_scrape(company_data, age, force) ==
    IF force \/ ~company_data.exists THEN TRUE
    ELSE IF ~company_data.has_last_request THEN TRUE
    ELSE age >= CACHE_HOURS

\* the page loop of _fetch_job_list; pages[page] is what _fetch gives for that page
RECURSIVE FetchJobList(_, _, _, _)
FetchJobList(pages, page, all_jobs, last_status) ==
    IF page > MAX_PAGES THEN [raised |-> FALSE, jobs |-> all_jobs, status |-> last_status]
    ELSE LET fetched == pages[page]
             status == IF fetched.status # 0 THEN fetched.status ELSE last_status
             new_jobs == SelectSeq(fetched.jobs, LAMBDA job : job \notin Range(all_jobs))
         IN  IF fetched.kind = "raise"
             THEN [raised |-> TRUE, jobs |-> << >>, status |-> 0]
             ELSE IF fetched.kind = "none" \/ new_jobs = << >>
             THEN [raised |-> FALSE, jobs |-> all_jobs, status |-> status]
             ELSE FetchJobList(pages, page + 1, all_jobs \o new_jobs, status)

\* asyncio.gather over _fetch_job_detail: the details that came back, unless a fetch
\* raised
FetchDetails(jobs, detail) ==
    [raised |-> \E i \in 1..Len(jobs) : detail[jobs[i]] = "raise",
     details |-> SelectSeq(jobs, LAMBDA job : detail[job] = "html")]

Scraped(raised, job_count, ran, file) ==
    [raised |-> raised, job_count |-> job_count, ran |-> ran, file |-> file]

scrape_company(force, existing, age, company, pages, detail) ==
    IF ~should_scrape(existing, age, force)
    THEN Scraped(FALSE, existing.job_count, FALSE, existing)
    ELSE LET listed == FetchJobList(pages, 1, << >>, 0)
             fetched == FetchDetails(listed.jobs, detail)
         IN  IF listed.raised THEN Scraped(TRUE, 0, FALSE, existing)
             ELSE IF listed.jobs = << >>
             THEN Scraped(FALSE, 0, TRUE, Payload(company, 0, << >>, listed.status))
             ELSE IF fetched.raised THEN Scraped(TRUE, 0, FALSE, existing)
             ELSE Scraped(FALSE, Len(fetched.details), TRUE,
                          Payload(company, Len(fetched.details), fetched.details,
                                  listed.status))

WorkdayCompany == CompanyRow("Acme", "https://acme.wd1.example/jobs", "acme_wd1_example_jobs")

\* the file a previous scrape left: none, one without a timestamp, one of the same
\* board under its former name
ExistingFiles ==
    {NoPayload,
     [Payload(CompanyRow("Acme Old", "https://acme.wd1.example/jobs", "acme_wd1_example_jobs"),
              2, <<"j1", "j2">>, 200) EXCEPT !.has_last_request = FALSE],
     Payload(CompanyRow("Acme Old", "https://acme.wd1.example/jobs", "acme_wd1_example_jobs"),
             2, <<"j1", "j2">>, 200)}

PageOutcomes ==
    {Raises, NoHtml(0), NoHtml(404), NoHtml(500), Html(<< >>), Html(<<"j1">>),
     Html(<<"j1", "j2">>)}

ScrapeCompany ==
    /\ call.fn = "none"
    /\ \E force \in BOOLEAN, existing \in ExistingFiles, age \in {1, CACHE_HOURS},
          first \in PageOutcomes, second \in {Raises, NoHtml(404), Html(<<"j1">>)},
          detail \in [{"j1", "j2"} -> {"html", "none", "raise"}] :
          call' = Call("scrape_company",
                       [force |-> force, existing |-> existing, company |-> WorkdayCompany,
                        pages |-> <<first, second>>, detail |-> detail],
                       scrape_company(force, existing, age, WorkdayCompany,
                                      <<first, second>>, detail))
    /\ Frame

SpecWorkday == AtRest /\ [][ScrapeCompany]_vars

\* C23: WorkdayScraper(force=True).scrape_company always reports ran = True and leaves
\* <slug>.json on disk whose slug, company and url equal the requested company's and
\* whose job_count equals the returned job count, with 'jobs' and 'status' present,
\* whether or not any job could be fetched.
C23_ForcedScrapeWritesCompanyFile ==
    (call.fn = "scrape_company" /\ call.arg.force) =>
        /\ ~call.ret.raised
        /\ call.ret.ran
        /\ call.ret.file.exists
        /\ call.ret.file.slug = call.arg.company.slug
        /\ call.ret.file.company = call.arg.company.name
        /\ call.ret.file.url = call.arg.company.url
        /\ call.ret.file.job_count = call.ret.job_count

-----------------------------------------------------------------------------
(* The refresh hooks of Ashby and Workable, as fetch_fresh_data calls them *)

\* the <slug>.json of a board: whether it is there, how many jobs it lists, and the
\* fetch that wrote it (0 for the blob found before the call)
BoardFile(exists, jobs, fetch) == [exists |-> exists, jobs |-> jobs, fetch |-> fetch]

\* what the remote endpoint answers: a status, whether the body is JSON, its jobs
Answer(status, json, jobs) == [status |-> status, json |-> json, jobs |-> jobs]

\* what a hook gives back: it raised, or a tuple of `arity` members
HookRaised(file) ==
    [raised |-> TRUE, arity |-> 0, path |-> FALSE, count |-> 0, was_scraped |-> FALSE,
     file |-> file]

HookResult(arity, path, count, was_scraped, file) ==
    [raised |-> FALSE, arity |-> arity, path |-> path, count |-> count,
     was_scraped |-> was_scraped, file |-> file]

\* the parameters each hook declares
HookParameters(ats) ==
    CASE ats = "ashby" -> {"company_slug"}
      [] ats = "workable" -> {"company_slug"}

\* scrape_ashby_jobs(company_slug): (None, 0) unless the endpoint answers 200 with
\* JSON, and then the file is written and (file_path, len(jobs)) returned
scrape_ashby_jobs(file, answer) ==
    IF answer.status # 200 \/ ~answer.json THEN HookResult(2, FALSE, 0, FALSE, file)
    ELSE HookResult(2, TRUE, answer.jobs, FALSE, BoardFile(TRUE, answer.jobs, 1))

\* scrape_workable_jobs(company_slug): a file that is there is never fetched again
scrape_workable_jobs(file, answer) ==
    IF file.exists THEN HookResult(2, FALSE, 0, FALSE, file)
    ELSE IF answer.status # 200 \/ ~answer.json THEN HookResult(2, FALSE, 0, FALSE, file)
    ELSE HookResult(2, TRUE, answer.jobs, FALSE, BoardFile(TRUE, answer.jobs, 1))

\* a call hook(slug, **keywords): a keyword the hook does not declare is a TypeError
\* raised before its body runs
CallHook(ats, keywords, file, answer) ==
    IF ~(keywords \subseteq HookParameters(ats)) THEN HookRaised(file)
    ELSE IF ats = "ashby" THEN scrape_ashby_jobs(file, answer)
    ELSE scrape_workable_jobs(file, answer)

\* fetch_fresh_data(company_name, ats_type, slug): the hook is called with force= and
\* company_name=, result[2] is read, and every Exception becomes False
FetchFreshData(ats, file, answer) ==
    LET result == CallHook(ats, {"force", "company_name"}, file, answer)
        raised == result.raised \/ result.arity < 3
    IN  [hook |-> result, raised |-> raised,
         was_fetched |-> ~raised /\ result.was_scraped, file |-> result.file]

\* scrape_all_<ats>_jobs calls the hook with the slug alone and unpacks two values
ScrapeAll(ats, file, answer) ==
    LET result == CallHook(ats, {}, file, answer)
    IN  [hook |-> result, raised |-> result.raised \/ result.arity # 2,
         was_fetched |-> ~result.raised /\ result.path, file |-> result.file]

HookAts == {"ashby", "workable"}

BoardFiles == {BoardFile(FALSE, 0, 0)} \cup {BoardFile(TRUE, jobs, 0) : jobs \in 0..MaxJobs}

Answers ==
    {Answer(404, FALSE, 0), Answer(429, FALSE, 0), Answer(500, FALSE, 0),
     Answer(200, FALSE, 0)}
        \cup {Answer(200, TRUE, jobs) : jobs \in 0..MaxJobs + 1}

\* the aggregator found the blob stale and asks for a refresh
RefreshStale ==
    /\ call.fn = "none"
    /\ \E ats \in HookAts, file \in BoardFiles, answer \in Answers :
          /\ file.exists
          /\ call' = Call("fetch_fresh_data", [ats |-> ats, file |-> file, answer |-> answer],
                          FetchFreshData(ats, file, answer))
    /\ Frame

\* the batch scraper of the source visits the board
ScrapeBoard ==
    /\ call.fn = "none"
    /\ \E ats \in HookAts, file \in BoardFiles, answer \in Answers :
          call' = Call("scrape_all", [ats |-> ats, file |-> file, answer |-> answer],
                       ScrapeAll(ats, file, answer))
    /\ Frame

SpecHooks == AtRest /\ [][RefreshStale \/ ScrapeBoard]_vars

\* C24: when an Ashby or Workable blob is stale and the remote endpoint answers
\* successfully, the hook call made with (slug, force, company_name) completes without
\* error, returns a (path, count, was_scraped) triple, and the blob on disk has been
\* rewritten with the newly fetched data before it is parsed.
C24_StaleBlobRefreshedByHook ==
    (/\ call.fn = "fetch_fresh_data"
     /\ call.arg.answer.status = 200
     /\ call.arg.answer.json) =>
        /\ ~call.ret.raised
        /\ call.ret.hook.arity = 3
        /\ call.ret.file = BoardFile(TRUE, call.arg.answer.jobs, 1)

-----------------------------------------------------------------------------
(* The scraper hooks of the bespoke sources, called with force=False *)

\* <source>.json as a hook finds it: whether it parses, whether its top level is an
\* object or a list (the old format), how many jobs it holds, its last_scraped (absent,
\* naive, with a UTC offset, or not an ISO timestamp) and the hours since it was
\* written, which is the age of last_scraped and of the file's mtime alike
SourceFile(exists, parses, top, jobs, stamp, age) ==
    [exists |-> exists, parses |-> parses, top |-> top, jobs |-> jobs, stamp |-> stamp,
     age |-> age]

\* what a hook gives back: (path, count, was_scraped), whether the network was used,
\* or an exception
HookReused(count) == [raised |-> FALSE, count |-> count, was_scraped |-> FALSE, network |-> FALSE]
HookScraped(count) == [raised |-> FALSE, count |-> count, was_scraped |-> TRUE, network |-> TRUE]
ScraperRaised == [raised |-> TRUE, count |-> 0, was_scraped |-> FALSE, network |-> FALSE]

\* scrape_meta: a file that is there and holds a list of jobs is reused whatever its age
scrape_meta(force, file, fetched) ==
    IF ~force /\ file.exists /\ file.parses THEN HookReused(file.jobs)
    ELSE HookScraped(fetched)

\* scrape_apple_jobs and scrape_uber_jobs, which differ in the client they use
ScrapeWithMaxAge(max_age_hours, force, file, fetched) ==
    IF ~force /\ file.exists /\ file.parses
    THEN IF file.top = "list"
         THEN IF file.jobs > 0 THEN HookReused(file.jobs) ELSE HookScraped(fetched)
         ELSE IF file.jobs > 0 /\ file.age < max_age_hours THEN HookReused(file.jobs)
         ELSE HookScraped(fetched)
    ELSE HookScraped(fetched)

scrape_apple_jobs(force, file, fetched) == ScrapeWithMaxAge(6, force, file, fetched)

scrape_uber_jobs(force, file, fetched) == ScrapeWithMaxAge(6, force, file, fetched)

\* scrape_nvidia_jobs: now is taken in UTC, so a naive last_scraped cannot be
\* subtracted; a list has no .get
scrape_nvidia_jobs(force, file, fetched) ==
    IF ~force /\ file.exists /\ file.parses
    THEN IF file.top = "list" THEN ScraperRaised
         ELSE IF file.stamp = "aware" /\ file.age < 12 THEN HookReused(file.jobs)
         ELSE HookScraped(fetched)
    ELSE HookScraped(fetched)

\* scrape_tiktok_jobs: now is naive, so a last_scraped with an offset cannot be
\* subtracted
scrape_tiktok_jobs(force, file, fetched) ==
    IF ~force /\ file.exists /\ file.parses
    THEN IF file.top = "dict" /\ file.stamp = "naive" /\ file.age < 12
         THEN HookReused(file.jobs)
         ELSE HookScraped(fetched)
    ELSE HookScraped(fetched)

BespokeSources == {"meta", "apple", "uber", "nvidia", "tiktok"}

scrape_func(source, force, file, fetched) ==
    CASE source = "meta" -> scrape_meta(force, file, fetched)
      [] source = "apple" -> scrape_apple_jobs(force, file, fetched)
      [] source = "uber" -> scrape_uber_jobs(force, file, fetched)
      [] source = "nvidia" -> scrape_nvidia_jobs(force, file, fetched)
      [] source = "tiktok" -> scrape_tiktok_jobs(force, file, fetched)

\* the form of last_scraped each scraper writes
StampWritten(source) == IF source = "nvidia" THEN "aware" ELSE "naive"

FileAges == {1, 5, 6, 11, 12, 100}

\* the files a hook may find: none, one that does not parse, one in the old list
\* format, one the scraper itself wrote, one without a usable last_scraped
SourceFiles(source) ==
    {SourceFile(FALSE, FALSE, "dict", 0, "none", 0)}
        \cup {SourceFile(TRUE, FALSE, "dict", 0, "none", age) : age \in FileAges}
        \cup {SourceFile(TRUE, TRUE, "list", jobs, "none", age) :
                 jobs \in {0, MaxJobs}, age \in FileAges}
        \cup {SourceFile(TRUE, TRUE, "dict", jobs, stamp, age) :
                 jobs \in {0, MaxJobs}, stamp \in {StampWritten(source), "none", "bad"},
                 age \in FileAges}

\* gather_special_source_jobs calls the hook of a bespoke source with force=False
GatherSpecial ==
    /\ call.fn = "none"
    /\ \E source \in BespokeSources :
       \E file \in SourceFiles(source), fetched \in {0, MaxJobs + 1} :
          call' = Call("scrape_func",
                       [source |-> source, force |-> FALSE, file |-> file,
                        fetched |-> fetched],
                       scrape_func(source, FALSE, file, fetched))
    /\ Frame

\* the scraper run on its own with --force
ForceScrape ==
    /\ call.fn = "none"
    /\ \E source \in BespokeSources :
       \E file \in SourceFiles(source), fetched \in {0, MaxJobs + 1} :
          call' = Call("scrape_func",
                       [source |-> source, force |-> TRUE, file |-> file,
                        fetched |-> fetched],
                       scrape_func(source, TRUE, file, fetched))
    /\ Frame

SpecBespoke == AtRest /\ [][GatherSpecial \/ ForceScrape]_vars

\* the windows the claim names; none is named for Meta, and the longest is taken
FreshnessWindow(source) ==
    CASE source \in {"apple", "uber"} -> 6
      [] OTHER -> 12

\* C25: every bespoke source's hook (Meta included) called with force=False re-scrapes
\* whenever the existing blob is older than the source's freshness window and reuses
\* the blob without network access only when it is younger than the window.
C25_BespokeHookRescrapesStaleBlob ==
    (/\ call.fn = "scrape_func"
     /\ ~call.arg.force
     /\ call.arg.file.exists) =>
        /\ call.arg.file.age >= FreshnessWindow(call.arg.source) =>
              call.ret.was_scraped /\ call.ret.network
        /\ (~call.ret.raised /\ ~call.ret.network) =>
              call.arg.file.age < FreshnessWindow(call.arg.source)

\* the same for the files a scraper wrote itself, Meta set aside
C25_HoldsForOwnFilesButMeta ==
    (/\ call.fn = "scrape_func"
     /\ ~call.arg.force
     /\ call.arg.file.exists
     /\ call.arg.source # "meta"
     /\ call.arg.file.top = "dict") =>
        /\ call.arg.file.age >= FreshnessWindow(call.arg.source) =>
              call.ret.was_scraped /\ call.ret.network
        /\ (~call.ret.raised /\ ~call.ret.network) =>
              call.arg.file.age < FreshnessWindow(call.arg.source)

-----------------------------------------------------------------------------
(* post.py: the rows of new_ai.csv that go into a thread *)

\* date.today().strftime(fmt) on day d: a date has no time of day, so %H and %M give 00
strftime(d, fmt) ==
    IF fmt = "%d-%m-%Y-%H-%M" THEN <<d, 0, 0>> ELSE <<d>>

\* the date_added main() of the aggregator stamps on day d (today_str)
today_str(d) == strftime(d, "%d-%m-%Y-%H-%M")

LedgerRow(url, date_added) == [url |-> url, date_added |-> date_added]

\* date_filter None is the empty text
get_new_jobs_from_csv(rows, posted_urls, date_filter) ==
    SelectSeq(rows, LAMBDA row :
        /\ row.url \notin posted_urls
        /\ date_filter = << >> \/ row.date_added = date_filter)

\* the jobs of the thread, and posted_jobs.json afterwards
Posted(jobs, posted_urls) ==
    [jobs |-> jobs,
     posted_urls |-> posted_urls \cup {jobs[i].url : i \in 1..Len(jobs)}]

daily_digest_post(rows, posted_urls, today) ==
    Posted(get_new_jobs_from_csv(rows, posted_urls, strftime(today, "%d-%m-%Y")),
           posted_urls)

hourly_update_post(rows, posted_urls) ==
    Posted(get_new_jobs_from_csv(rows, posted_urls, << >>), posted_urls)

LedgerUrls == {"u1", "u2"}

\* what date_added may hold: the stamp of an aggregator run of some day, or that day alone
\* (the form the digest filters on, which a file edited by hand may carry)
DateAddedValues == {today_str(d) : d \in Days} \cup {strftime(d, "%d-%m-%Y") : d \in Days}

\* new_ai.csv: at most one row per url
Ledgers ==
    {rows \in ListsUpTo({LedgerRow(url, date_added) :
                            url \in LedgerUrls, date_added \in DateAddedValues}, 2) :
        \A i, j \in 1..Len(rows) : rows[i].url = rows[j].url => i = j}

DailyDigest ==
    /\ call.fn = "none"
    /\ \E rows \in Ledgers, posted_urls \in SUBSET LedgerUrls, today \in Days :
          call' = Call("daily_digest_post",
                       [rows |-> rows, posted_urls |-> posted_urls, today |-> today],
                       daily_digest_post(rows, posted_urls, today))
    /\ Frame

HourlyUpdate ==
    /\ call.fn = "none"
    /\ \E rows \in Ledgers, posted_urls \in SUBSET LedgerUrls, today \in Days :
          call' = Call("hourly_update_post",
                       [rows |-> rows, posted_urls |-> posted_urls, today |-> today],
                       hourly_update_post(rows, posted_urls))
    /\ Frame

SpecDigest == AtRest /\ [][DailyDigest \/ HourlyUpdate]_vars

\* C29: daily_digest_post includes every not-yet-posted row of new_ai.csv whose
\* date_added was stamped by an aggregator run on the current day.
C29_DigestIncludesTodaysRows ==
    call.fn = "daily_digest_post" =>
        \A i \in 1..Len(call.arg.rows) :
            (/\ call.arg.rows[i].url \notin call.arg.posted_urls
             /\ call.arg.rows[i].date_added = today_str(call.arg.today))
                => call.arg.rows[i] \in Range(call.ret.jobs)

-----------------------------------------------------------------------------
(* post.py: packing the job blocks into posts; texts are modelled by their lengths *)

MAX_CHARS_PER_POST == 260

\* a row of new_ai.csv as format_job_line reads it: its label and the lengths of its
\* title, company, location and url (posted_at is empty)
ThreadJob(label, title, company, location, url) ==
    [label |-> label, title |-> title, company |-> company, location |-> location,
     url |-> url]

\* len("(NEW)"), len("(RELISTED)")
LabelLen(label) == IF label = "(NEW)" THEN 5 ELSE 10

\* the length of the block: the lines "<sparkles> <label> <title> @<company>", location
\* and url, joined by "\n"
format_job_line(job) ==
    (2 + LabelLen(job.label) + 1 + job.title + 2 + job.company)
        + (IF job.location > 0 THEN 1 + job.location ELSE 0)
        + (IF job.url > 0 THEN 1 + job.url ELSE 0)

RECURSIVE SumOf(_)
SumOf(lengths) == IF lengths = << >> THEN 0 ELSE Head(lengths) + SumOf(Tail(lengths))

\* len("\n\n".join(blocks)), blocks given by their lengths
JoinedLen(blocks) == SumOf(blocks) + 2 * (Len(blocks) - 1)

\* the loop of build_x_thread_for_jobs; an empty block is appended between two blocks
RECURSIVE PackBlocks(_, _, _, _)
PackBlocks(jobs, posts, current_blocks, current_len) ==
    IF jobs = << >>
    THEN IF current_blocks # << >> THEN Append(posts, JoinedLen(current_blocks)) ELSE posts
    ELSE LET block == format_job_line(Head(jobs))
             separator_len == IF current_blocks # << >> THEN 2 ELSE 0
             block_len == block + separator_len
         IN  IF current_blocks # << >> /\ current_len + block_len > MAX_CHARS_PER_POST
             THEN PackBlocks(Tail(jobs), Append(posts, JoinedLen(current_blocks)),
                             <<block>>, block)
             ELSE PackBlocks(Tail(jobs), posts,
                             IF separator_len # 0
                             THEN current_blocks \o <<0, block>>
                             ELSE Append(current_blocks, block),
                             current_len + separator_len + block)

\* the lengths of the posts of the thread
build_x_thread_for_jobs(jobs) == PackBlocks(jobs, << >>, << >>, 0)

\* jobs of company "Acme Inc" in "San Francisco" behind a 30-character link: blocks
\* of 83, 129, 130 and 313 characters when new
ThreadJobs ==
    {ThreadJob(label, title, 8, 13, 30) :
        label \in {"(NEW)", "(RELISTED)"}, title \in {20, 66, 67, 250}}

BuildThread ==
    /\ call.fn = "none"
    /\ \E jobs \in ListsUpTo(ThreadJobs, MaxLen) :
          call' = Call("build_x_thread_for_jobs", jobs, build_x_thread_for_jobs(jobs))
    /\ Frame

SpecThread == AtRest /\ [][BuildThread]_vars

\* C30: for any list of jobs, every post build_x_thread_for_jobs returns is at most
\* MAX_CHARS_PER_POST (260) characters long, counting the separators actually
\* inserted between job blocks.
C30_PostsWithinLimit ==
    call.fn = "build_x_thread_for_jobs" =>
        \A i \in 1..Len(call.ret) : call.ret[i] <= MAX_CHARS_PER_POST

-----------------------------------------------------------------------------
(* A run that is interrupted (killed, power loss) while it writes one of its files *)

\* the files of a run in the order main() writes them
WriteOrder == <<"learned", "canonical", "dated", "rm_ai", "new_ai">>

\* every file is written in place: open(path, "w") empties it, the rows follow
Prefixes(rows) == {SubSeq(rows, 1, n) : n \in 0..(Len(rows) - 1)}

\* the disk as a record of the five files
Disk(l, c, d, r, n) == [learned |-> l, canonical |-> c, dated |-> d, rm_ai |-> r, new_ai |-> n]

\* the contents a file can be left with when the run dies while writing it
Truncated(file, pre, post) ==
    CASE file = "learned" ->
            {[exists |-> TRUE, map |-> m] : m \in Prefixes(post.learned.map)}
      [] file = "dated" ->
            {[post.dated EXCEPT ![day] = [exists |-> TRUE, rows |-> rs, mtime |-> clock]]
                : rs \in Prefixes(post.dated[day].rows)}
      [] OTHER -> {File(rs) : rs \in Prefixes(post[file].rows)}

\* the run writes this file: the learned map in a built-in-list run, both snapshots
\* always, a ledger when the run leaves it changed and on disk
Writes(args, file, pre, post) ==
    CASE file = "learned" -> UsesBuiltinList(args)
      [] file \in {"canonical", "dated"} -> TRUE
      [] OTHER -> post[file].exists /\ post[file] # pre[file]

Interrupted ==
    /\ call.fn = "none"
    /\ clock <= MaxRuns
    /\ \E out \in GatherOutcomes(argv) :
          /\ out.jobs # << >>
          /\ blobs' = out.blobs
          /\ LET w == RunWrites(out)
                 pre == Disk(learned, canonical, dated, rm_ai, new_ai)
                 post == Disk(LearnedAfter(argv, out.jobs), w.canonical, w.dated,
                              w.rm_ai, w.new_ai)
             IN  \E k \in 1..Len(WriteOrder) :
                    /\ Writes(argv, WriteOrder[k], pre, post)
                    /\ \E partial \in Truncated(WriteOrder[k], pre, post) :
                          LET at(j) == IF j < k THEN post[WriteOrder[j]]
                                       ELSE IF j = k THEN partial
                                       ELSE pre[WriteOrder[j]]
                          IN  /\ learned' = at(1)
                              /\ canonical' = at(2)
                              /\ dated' = at(3)
                              /\ rm_ai' = at(4)
                              /\ new_ai' = at(5)
                    /\ call' = Call("interrupted", WriteOrder[k], << >>)
    /\ clock' = clock + 1
    /\ UNCHANGED <<day, argv, last>>

\* the runs and the days before the interrupted run
RunToCompletion == call.fn = "none" /\ Run

DayPasses == call.fn = "none" /\ NextDay

\* complete runs over the days, up to the first interrupted run
SpecInterrupt == Init /\ [][RunToCompletion \/ DayPasses \/ Interrupted]_vars

\* C17: if a run is interrupted at any point, each of the canonical snapshot, the dated
\* snapshot, the two ledgers and the learned-ATS map holds either its complete pre-run
\* content or its complete post-run content.
C17_FilesCompleteAfterInterrupt ==
    [][call'.fn = "interrupted" =>
         \E out \in GatherOutcomes(argv) :
            /\ blobs' = out.blobs
            /\ LET w == RunWrites(out)
               IN  /\ learned' \in {learned, LearnedAfter(argv, out.jobs)}
                   /\ canonical' \in {canonical, w.canonical}
                   /\ dated' \in {dated, w.dated}
                   /\ rm_ai' \in {rm_ai, w.rm_ai}
                   /\ new_ai' \in {new_ai, w.new_ai}]_vars

-----------------------------------------------------------------------------
(* Properties of the snapshot and ledger writer *)

\* this step is a run that wrote a snapshot
RunWrote == clock' = clock + 1 /\ last'.wrote

\* this step is a run that wrote a snapshot and compared it with a previous dated one
RunCompared == RunWrote /\ last'.prev # 0

\* the last run wrote a snapshot, and the dated snapshot it compared against is on disk
AfterCompared ==
    last.op = "run" /\ last.wrote /\ last.prev # 0 /\ dated[last.prev].exists

\* C1, as stated: after a run that finds a prior dated snapshot and writes the current
\* one, every URL in new_ai.csv is in the current snapshot and is absent from the prior
\* dated snapshot the run compared against.
C1_NewLedgerOnlyFreshUrls ==
    [][RunCompared =>
         \A u \in Urls(new_ai'.rows) :
            /\ u \in Urls(canonical'.rows)
            /\ u \notin Urls(dated'[last'.prev].rows)]_vars

\* C1, amended: after such a run, every URL in new_ai.csv that was not in new_ai.csv
\* before the run is in the current snapshot and absent from the prior dated snapshot,
\* and every URL of the current snapshot absent from the prior one is in new_ai.csv.
C1_NewLedgerCumulative ==
    [][RunCompared =>
         LET C == Urls(canonical'.rows)
             P == Urls(dated'[last'.prev].rows)
         IN  /\ Urls(new_ai'.rows) \ Urls(new_ai.rows) \subseteq C \ P
             /\ C \ P \subseteq Urls(new_ai'.rows)]_vars

\* a compared run has left in new_ai.csv a URL that the prior dated snapshot also holds
C1_Witness ==
    /\ AfterCompared
    /\ \E u \in Urls(new_ai.rows) :
          u \in Urls(canonical.rows) /\ u \in Urls(dated[last.prev].rows)

\* C2: after a run that finds a prior dated snapshot P and writes the current snapshot
\* C, a URL is in rm_ai.csv (a deleted file is empty) if and only if it is not in C and
\* it is in P or was in rm_ai.csv before the run.
C2_RemovedLedgerIff ==
    [][RunCompared =>
         LET C == Urls(canonical'.rows)
             P == Urls(dated'[last'.prev].rows)
         IN  Urls(rm_ai'.rows) = (P \cup Urls(rm_ai.rows)) \ C]_vars

\* a compared run has kept in rm_ai.csv a URL that only the earlier ledger held
C2_Witness ==
    /\ AfterCompared
    /\ rm_ai.exists
    /\ \E u \in Urls(rm_ai.rows) : u \notin Urls(dated[last.prev].rows)

\* C3: after every run that writes a snapshot, new_ai.csv holds no URL that is absent
\* from the current snapshot.
C3_NewLedgerWithinSnapshot ==
    (last.op = "run" /\ last.wrote) =>
        Urls(new_ai.rows) \subseteq Urls(canonical.rows)

\* C4: after every run that writes a snapshot, with or without a prior dated snapshot,
\* rm_ai.csv holds no URL that is present in the current snapshot.
C4_RemovedLedgerOutsideSnapshot ==
    (last.op = "run" /\ last.wrote) =>
        Urls(rm_ai.rows) \cap Urls(canonical.rows) = {}

\* C5: a URL that a dated snapshot on disk carries with date d is written with the same
\* d by every later run whose snapshot contains it.
C5_DateSetOnce ==
    [][RunWrote =>
         \A i \in 1..Len(canonical'.rows) : \A d \in Days : \A j \in 1..Len(dated[d].rows) :
            (canonical'.rows[i].url # "" /\ dated[d].rows[j].url = canonical'.rows[i].url)
               => canonical'.rows[i].date = dated[d].rows[j].date]_vars

\* C6: a run that follows a writing run of the same day, with the blobs unchanged and no
\* refresh hook invoked, writes the canonical snapshot the earlier run wrote: the same
\* rows, fields, dates and row order.
C6_RepeatRunSameSnapshot ==
    [][(clock' = clock + 1 /\ last'.repeat
          /\ dated[day].exists /\ dated[day].mtime = clock - 1)
         => canonical' = canonical]_vars

\* C7: in every snapshot a run writes, no two rows have the same (ats_type, url).
C7_UniqueAtsUrl ==
    (last.op = "run" /\ last.wrote) =>
        \A i, j \in 1..Len(canonical.rows) :
            (canonical.rows[i].ats_type = canonical.rows[j].ats_type
               /\ canonical.rows[i].url = canonical.rows[j].url) => i = j

\* the urls of a file's rows, in file order
UrlsInOrder(rows) == [i \in 1..Len(rows) |-> rows[i].url]

\* C27: in the new ledger a run writes, the rows retained from the prior ledger come
\* first, in their prior file order, followed by the rows first added in this run.
C27_RetainedRowsBeforeNewRows ==
    [][RunWrote =>
         LET before == UrlsInOrder(new_ai.rows)
             after == UrlsInOrder(new_ai'.rows)
             retained == SelectSeq(before, LAMBDA u : u \in Range(after))
         IN  /\ Len(after) >= Len(retained)
             /\ SubSeq(after, 1, Len(retained)) = retained
             /\ \A i \in Len(retained) + 1..Len(after) : after[i] \notin Range(before)]_vars

\* a run has written a ledger in which a row added on an earlier day is followed by a
\* row added on the day of the run
C27_Witness ==
    /\ AfterCompared
    /\ new_ai.exists
    /\ \E i, j \in 1..Len(new_ai.rows) :
          /\ i < j
          /\ new_ai.rows[i].date_added < day
          /\ new_ai.rows[j].date_added = day

\* C28: a run that gathers zero jobs terminates normally and leaves the canonical
\* snapshot, every dated snapshot, both ledgers and the learned-ATS map exactly as they
\* were; postings that all vanished are not added to the removed ledger by that run.
C28_ZeroJobRunWritesNothing ==
    [][(clock' = clock + 1 /\ ~last'.wrote) =>
          /\ last'.op = "run"
          /\ UNCHANGED <<canonical, dated, new_ai, rm_ai, learned>>]_vars

\* a run has found no job although the canonical snapshot lists postings, none of which
\* is in the removed ledger
C28_Witness ==
    /\ last.op = "run"
    /\ ~last.wrote
    /\ canonical.exists
    /\ \E u \in Urls(canonical.rows) : u # "" /\ u \notin Urls(rm_ai.rows)

====
